---- MODULE Spec2Model ----
(***************************************************************************)
(* QtRemoteObjects: the registry replica (QRemoteObjectRegistry) of one    *)
(* node, the registry source it talks to, the packets between them, and    *)
(* the add- and remove-notifications of another node of the same registry. *)
(*                                                                         *)
(* QRemoteObjectRegistry::addSource, removeSource, pushToRegistryIfNeeded  *)
(* and sourceLocations are translated from                                 *)
(* src/remoteobjects/qremoteobjectregistry.cpp.  The replica state machine *)
(* and the registry source (the owner of the registry table) are not part  *)
(* of that file; they follow sections 3, 4.1 and 4.3 of the specification. *)
(***************************************************************************)
EXTENDS Integers, Sequences, FiniteSets, TLC

(* ------------------------------ bounds --------------------------------- *)
\* capacity of each direction of the node's connection to the registry
MaxQueue == 2

\* source names that nodes try to register
Names == {"alpha", "beta"}
\* the endpoint this node registers its sources under
LocalUrls == {"tcp://h1"}
\* the endpoint of another node that uses the same registry
RemoteUrls == {"tcp://h2"}
\* the endpoints this node hosts sources under when it has a second one
HostUrls == LocalUrls \cup {"tcp://h1:2"}

Endpoints == LocalUrls \cup RemoteUrls

\* QRemoteObjectReplica::State, with the names of section 4.3
States == {"Uninitialized", "Connecting", "Valid", "Suspect", "SignatureMismatch"}

\* the signature the registry replica expects, and an incompatible one
ExpectedSignature == "sig-registry"
OtherSignature == "sig-other"

(* ------------------- QRemoteObjectSourceLocations ---------------------- *)
\* QHash<QString, endpoint> as a function whose domain is the set of keys
EmptyLocations == [n \in {} |-> "tcp://h1"]
contains(m, k) == k \in DOMAIN m
insert(m, k, v) == [n \in DOMAIN m \cup {k} |-> IF n = k THEN v ELSE m[n]]
remove(m, k) == [n \in DOMAIN m \ {k} |-> m[n]]
LocationMaps == UNION {[D -> Endpoints] : D \in SUBSET Names}

\* the iteration orders a QHash with key set S can have
Orders(S) == {o \in [1..Cardinality(S) -> S] : \A a, b \in 1..Cardinality(S) : o[a] = o[b] => a = b}

(* ------------------------------ packets -------------------------------- *)
\* send(QMetaObject::InvokeMetaMethod, index of addSource / removeSource, entry)
AddPacket(name, url) == [type |-> "AddSource", name |-> name, url |-> url]
RemovePacket(name, url) == [type |-> "RemoveSource", name |-> name, url |-> url]
\* replies and notifications of the registry source
InitReply(sig, locs) == [type |-> "InitReply", signature |-> sig, locations |-> locs]
AddedSignal(name, url) == [type |-> "remoteObjectAdded", name |-> name, url |-> url]
RemovedSignal(name, url) == [type |-> "remoteObjectRemoved", name |-> name, url |-> url]
\* qCWarning "ignoring source <name> as <why>"
Warning(name, why) == [name |-> name, why |-> why]
ThisNode == "this node already has a source by that name"
AnotherSource == "another source has already registered that name"

VARIABLES
    state,            \* QRemoteObjectReplica::state() of this node's registry replica
    hostedSources,    \* QRemoteObjectRegistryPrivate::hostedSources
    sourceLocations,  \* property 0 of the replica: the cached registry table
    toRegistry,       \* packets this node has sent that the registry source has not read
    toNode,           \* packets of the registry source that this node has not read
    regTable,         \* the registry table held by the registry source
    sourceSignature,  \* the signature of the registry source
    reconnected,      \* TRUE once the replica has reconnected after a link loss
    push,             \* the call of pushToRegistryIfNeeded that is in its loop, if any
    op,               \* the operation performed by the last step
    sent,             \* the packets the last step passed to send(), in order
    warned,           \* the warnings the last step logged
    emitted,          \* the signals emitted in the last step
    announced,        \* history: the names this replica announced and has not withdrawn
    persistedStore,   \* the property values the node keeps for the Replicas of a class
    replica,          \* a Replica of section 3: state, cachedProperties, pendingCalls
    source,           \* the Source object of that Replica: signature and properties
    link,             \* the connection between that Replica and its Source
    connection,       \* a connection shared by several objects: packets sent and processed
    sourceModel,      \* the item model enabled for remoting (m_sourceModel)
    model,            \* the model replica returned by acquireModel
    modelLink,        \* the packets between the model replica and the source model
    spy,              \* the notifications of the model replica that a QSignalSpy recorded
    ast,              \* the interface description that repc has parsed
    mode,             \* the Mode that generate() was called with
    m_globalEnumsPODs,\* RepCodeGenerator::m_globalEnumsPODs
    out,              \* what the generator has written, and what the generated code has streamed
    generating        \* the position of generate() in its plan, and the runs that are finished

\* the variables of the registry replica and the registry source
registryVars == <<state, hostedSources, sourceLocations, toRegistry, toNode, regTable,
                  sourceSignature, reconnected, push, sent, warned, emitted, announced>>
\* the variables of the Replica protocol of section 4.3
replicaVars == <<replica, source, link>>
\* the variables of the shared connection
connectionVars == <<connection>>
\* the variables of the model replication of section 4.4
modelVars == <<sourceModel, model, modelLink, spy>>
\* the variables of the code generator repc
generatorVars == <<ast, mode, m_globalEnumsPODs, out, generating>>
\* what the operations of the registry leave alone
otherVars == <<replicaVars, connectionVars, modelVars, generatorVars>>

vars == <<state, hostedSources, sourceLocations, toRegistry, toNode, regTable,
          sourceSignature, reconnected, push, op, sent, warned, emitted, announced, persistedStore,
          replica, source, link, connection, sourceModel, model, modelLink, spy,
          ast, mode, m_globalEnumsPODs, out, generating>>

Op(kind, name, url) == [kind |-> kind, name |-> name, url |-> url]

\* no call of pushToRegistryIfNeeded is running
Idle == [pc |-> "idle", sourceLocs |-> EmptyLocations, order |-> <<>>]

(* ------------------ QRemoteObjectRegistry (replica) -------------------- *)

\* the loop with a comparison of endpoints: a name the table maps to the
\* endpoint of the hosted source is announced again and kept
RECURSIVE reconcileLoop_OtherEndpointOnly(_, _, _)
reconcileLoop_OtherEndpointOnly(order, sourceLocs, acc) ==
    IF order = <<>> THEN acc
    ELSE LET loc == Head(order) IN
         IF contains(sourceLocs, loc) /\ sourceLocs[loc] # acc.hosted[loc]
         THEN reconcileLoop_OtherEndpointOnly(Tail(order), sourceLocs,
                  [acc EXCEPT !.hosted = remove(@, loc),
                              !.warned = @ \cup {Warning(loc, AnotherSource)}])
         ELSE reconcileLoop_OtherEndpointOnly(Tail(order), sourceLocs,
                  [acc EXCEPT !.sent = Append(@, AddPacket(loc, acc.hosted[loc]))])

\* the loop of pushToRegistryIfNeeded over hostedSources, visiting keys in `order`
RECURSIVE reconcileLoop(_, _, _)
reconcileLoop(order, sourceLocs, acc) ==
    IF order = <<>> THEN acc
    ELSE LET loc == Head(order) IN
         IF contains(sourceLocs, loc)
         THEN reconcileLoop(Tail(order), sourceLocs,
                  [acc EXCEPT !.hosted = remove(@, loc),
                              !.warned = @ \cup {Warning(loc, AnotherSource)}])
         ELSE reconcileLoop(Tail(order), sourceLocs,
                  [acc EXCEPT !.sent = Append(@, AddPacket(loc, acc.hosted[loc]))])

\* pushToRegistryIfNeeded that leaves the loop after the first hosted source
pushToRegistryIfNeeded_FirstOnly(st, hosted, locs, order) ==
    LET nothing == [hosted |-> hosted, sent |-> <<>>, warned |-> {}] IN
    IF st # "Valid" THEN nothing
    ELSE IF hosted = EmptyLocations THEN nothing
    ELSE reconcileLoop(SubSeq(order, 1, 1), locs, nothing)

\* pushToRegistryIfNeeded without the check of state()
pushToRegistryIfNeeded_AnyState(st, hosted, locs, order) ==
    LET nothing == [hosted |-> hosted, sent |-> <<>>, warned |-> {}] IN
    IF hosted = EmptyLocations THEN nothing
    ELSE reconcileLoop(order, locs, nothing)

\* pushToRegistryIfNeeded(): the slot connected to stateChanged
pushToRegistryIfNeeded(st, hosted, locs, order) ==
    LET nothing == [hosted |-> hosted, sent |-> <<>>, warned |-> {}] IN
    IF st # "Valid" THEN nothing
    ELSE IF hosted = EmptyLocations THEN nothing
    ELSE reconcileLoop(order, locs, nothing)

\* addSource that records the source but never announces it
addSourceResult_Silent(st, hosted, locs, name, url) ==
    IF contains(hosted, name)
    THEN [hosted |-> hosted, sent |-> <<>>, warned |-> {Warning(name, ThisNode)}]
    ELSE [hosted |-> insert(hosted, name, url), sent |-> <<>>, warned |-> {}]

\* addSource that looks at state() before it inserts into hostedSources
addSourceResult_StateFirst(st, hosted, locs, name, url) ==
    IF contains(hosted, name)
    THEN [hosted |-> hosted, sent |-> <<>>, warned |-> {Warning(name, ThisNode)}]
    ELSE IF st # "Valid"
    THEN [hosted |-> hosted, sent |-> <<>>, warned |-> {}]
    ELSE IF contains(locs, name)
    THEN [hosted |-> insert(hosted, name, url), sent |-> <<>>,
          warned |-> {Warning(name, AnotherSource)}]
    ELSE [hosted |-> insert(hosted, name, url), sent |-> <<AddPacket(name, url)>>, warned |-> {}]

\* addSource without the check of the name against sourceLocations()
addSourceResult_Publish(st, hosted, locs, name, url) ==
    IF contains(hosted, name)
    THEN [hosted |-> hosted, sent |-> <<>>, warned |-> {Warning(name, ThisNode)}]
    ELSE IF st # "Valid"
    THEN [hosted |-> insert(hosted, name, url), sent |-> <<>>, warned |-> {}]
    ELSE [hosted |-> insert(hosted, name, url), sent |-> <<AddPacket(name, url)>>, warned |-> {}]

\* addSource without the check of the name against hostedSources
addSourceResult_Replace(st, hosted, locs, name, url) ==
    IF st # "Valid"
    THEN [hosted |-> insert(hosted, name, url), sent |-> <<>>, warned |-> {}]
    ELSE IF contains(locs, name)
    THEN [hosted |-> insert(hosted, name, url), sent |-> <<>>,
          warned |-> {Warning(name, AnotherSource)}]
    ELSE [hosted |-> insert(hosted, name, url), sent |-> <<AddPacket(name, url)>>, warned |-> {}]

\* what addSource(entry) does to hostedSources, the wire and the log
addSourceResult(st, hosted, locs, name, url) ==
    IF contains(hosted, name)
    THEN [hosted |-> hosted, sent |-> <<>>, warned |-> {Warning(name, ThisNode)}]
    ELSE IF st # "Valid"
    THEN [hosted |-> insert(hosted, name, url), sent |-> <<>>, warned |-> {}]
    ELSE IF contains(locs, name)
    THEN [hosted |-> insert(hosted, name, url), sent |-> <<>>,
          warned |-> {Warning(name, AnotherSource)}]
    ELSE [hosted |-> insert(hosted, name, url), sent |-> <<AddPacket(name, url)>>, warned |-> {}]

\* removeSource without the check of state()
removeSourceResult_Always(st, hosted, name, url) ==
    IF ~contains(hosted, name)
    THEN [hosted |-> hosted, sent |-> <<>>, warned |-> {}]
    ELSE [hosted |-> remove(hosted, name), sent |-> <<RemovePacket(name, url)>>, warned |-> {}]

\* what removeSource(entry) does to hostedSources and the wire
removeSourceResult(st, hosted, name, url) ==
    IF ~contains(hosted, name)
    THEN [hosted |-> hosted, sent |-> <<>>, warned |-> {}]
    ELSE IF st # "Valid"
    THEN [hosted |-> remove(hosted, name), sent |-> <<>>, warned |-> {}]
    ELSE [hosted |-> remove(hosted, name), sent |-> <<RemovePacket(name, url)>>, warned |-> {}]

\* a handler that writes what it announces first into its own copy of the table
afterSend_SetData(locs, packets) ==
    IF packets = <<>> THEN locs
    ELSE IF Head(packets).type = "AddSource"
    THEN insert(locs, Head(packets).name, Head(packets).url)
    ELSE remove(locs, Head(packets).name)

\* sourceLocations() after a handler has passed `packets` to send(): "This
\* does not set any data", property 0 is what it was
afterSend(locs, packets) == locs

\* the names with an add-notification that no remove-notification has followed,
\* once `packets` were sent after those of `names`
RECURSIVE outstanding(_, _)
outstanding(names, packets) ==
    IF packets = <<>> THEN names
    ELSE outstanding(IF Head(packets).type = "AddSource"
                     THEN names \cup {Head(packets).name}
                     ELSE names \ {Head(packets).name}, Tail(packets))

\* the effect of a handler that returned r: its packets follow `queue`, the
\* packets already on the connection
Deliver(r, queue) ==
    /\ Len(queue) + Len(r.sent) <= MaxQueue
    /\ hostedSources' = r.hosted
    /\ toRegistry' = queue \o r.sent
    /\ sent' = r.sent
    /\ announced' = outstanding(announced, r.sent)
    /\ warned' = r.warned

\* QRemoteObjectRegistry::addSource(entry)
addSource(name, url) ==
    /\ Deliver(addSourceResult(state, hostedSources, sourceLocations, name, url), toRegistry)
    /\ sourceLocations' = afterSend(sourceLocations, sent')
    /\ UNCHANGED persistedStore
    /\ op' = Op("addSource", name, url)
    /\ emitted' = <<>>
    /\ UNCHANGED <<state, toNode, regTable, sourceSignature, reconnected, push, otherVars>>

\* QRemoteObjectRegistry::removeSource(entry)
removeSource(name, url) ==
    /\ Deliver(removeSourceResult(state, hostedSources, name, url), toRegistry)
    /\ sourceLocations' = afterSend(sourceLocations, sent')
    /\ UNCHANGED persistedStore
    /\ op' = Op("removeSource", name, url)
    /\ emitted' = <<>>
    /\ UNCHANGED <<state, toNode, regTable, sourceSignature, reconnected, push, otherVars>>

\* setState(st) of the replica: stores the state and emits stateChanged, whose
\* slot pushToRegistryIfNeeded runs before setState returns
setState(st, locs, queue) ==
    /\ state # st
    /\ state' = st
    /\ \E order \in Orders(DOMAIN hostedSources) :
           Deliver(pushToRegistryIfNeeded(st, hostedSources, locs, order), queue)
    /\ sourceLocations' = afterSend(locs, sent')

(* -------------------- replica state machine (4.3) ---------------------- *)

\* the registry source serves the replica of this node while the link is up
listening == state \in {"Connecting", "Valid"}

\* initializeNode(node, name): the acquisition request sends the handshake, which
\* the registry source answers with its signature and a snapshot of the table
Acquire ==
    /\ state = "Uninitialized"
    /\ setState("Connecting", sourceLocations, toRegistry)
    /\ toNode' = <<InitReply(sourceSignature, regTable)>>
    /\ UNCHANGED persistedStore
    /\ op' = Op("Acquire", "", "")
    /\ emitted' = <<>>
    /\ UNCHANGED <<regTable, sourceSignature, reconnected, push, otherVars>>

\* link loss: the replica becomes Suspect and keeps its cached properties;
\* whatever was in flight on the connection is gone
LinkLoss ==
    /\ state \in {"Connecting", "Valid"}
    /\ setState("Suspect", sourceLocations, <<>>)
    /\ toNode' = <<>>
    /\ UNCHANGED persistedStore
    /\ op' = Op("LinkLoss", "", "")
    /\ emitted' = <<>>
    /\ UNCHANGED <<regTable, sourceSignature, reconnected, push, otherVars>>

\* reconnection re-enters Connecting with a new handshake
Reconnect ==
    /\ state = "Suspect"
    /\ setState("Connecting", sourceLocations, toRegistry)
    /\ toNode' = <<InitReply(sourceSignature, regTable)>>
    /\ UNCHANGED persistedStore
    /\ op' = Op("Reconnect", "", "")
    /\ emitted' = <<>>
    /\ reconnected' = TRUE
    /\ UNCHANGED <<regTable, sourceSignature, push, otherVars>>

\* initialization reply: equal signatures adopt the property snapshot and enter
\* Valid, different signatures enter SignatureMismatch
ReceiveInit ==
    /\ state = "Connecting"
    /\ toNode # <<>>
    /\ Head(toNode).type = "InitReply"
    /\ IF Head(toNode).signature = ExpectedSignature
       THEN setState("Valid", Head(toNode).locations, toRegistry)
       ELSE setState("SignatureMismatch", sourceLocations, toRegistry)
    /\ toNode' = Tail(toNode)
    /\ UNCHANGED persistedStore
    /\ op' = Op("ReceiveInit", "", "")
    /\ emitted' = <<>>
    /\ UNCHANGED <<regTable, sourceSignature, reconnected, push, otherVars>>

\* the table a replica holds after a remoteObjectAdded / remoteObjectRemoved signal
applySignal(locs, sig) ==
    IF sig.type = "remoteObjectAdded" THEN insert(locs, sig.name, sig.url)
    ELSE remove(locs, sig.name)

\* a Valid replica receives a notification of the registry source, updates its
\* cached table and emits the signal locally
ReceiveSignal ==
    /\ state = "Valid"
    /\ toNode # <<>>
    /\ Head(toNode).type \in {"remoteObjectAdded", "remoteObjectRemoved"}
    /\ sourceLocations' = applySignal(sourceLocations, Head(toNode))
    /\ toNode' = Tail(toNode)
    /\ UNCHANGED persistedStore
    /\ op' = Op("ReceiveSignal", Head(toNode).name, Head(toNode).url)
    /\ emitted' = <<Head(toNode)>>
    /\ sent' = <<>>
    /\ announced' = announced
    /\ warned' = {}
    /\ UNCHANGED <<state, hostedSources, toRegistry, regTable, sourceSignature, reconnected, push, otherVars>>

(* ------------- pushToRegistryIfNeeded, one iteration a step ------------ *)

\* a loop that asks sourceLocations() again in every iteration
sourceLocs_Live(snapshot, current) == current

\* const auto &sourceLocs = sourceLocations(): the loop looks names up in the
\* copy it took before the first iteration, whatever the property holds now
sourceLocs(snapshot, current) == snapshot

\* the initialization reply takes the replica into Valid; pushToRegistryIfNeeded
\* passes its two checks, copies the table and enters the loop
ReceiveInitEnterLoop ==
    /\ push.pc = "idle"
    /\ state = "Connecting"
    /\ toNode # <<>>
    /\ Head(toNode).type = "InitReply"
    /\ Head(toNode).signature = ExpectedSignature
    /\ state' = "Valid"
    /\ sourceLocations' = Head(toNode).locations
    /\ toNode' = Tail(toNode)
    /\ \E order \in Orders(DOMAIN hostedSources) :
           push' = IF hostedSources = EmptyLocations THEN Idle
                   ELSE [pc |-> "loop", sourceLocs |-> Head(toNode).locations, order |-> order]
    /\ UNCHANGED persistedStore
    /\ op' = Op("ReceiveInit", "", "")
    /\ sent' = <<>>
    /\ announced' = announced
    /\ warned' = {}
    /\ emitted' = <<>>
    /\ UNCHANGED <<hostedSources, toRegistry, regTable, sourceSignature, reconnected, otherVars>>

\* one iteration of the loop, for the key the iterator points at
pushIteration ==
    /\ push.pc = "loop"
    /\ Deliver(reconcileLoop(<<Head(push.order)>>, sourceLocs(push.sourceLocs, sourceLocations),
                             [hosted |-> hostedSources, sent |-> <<>>, warned |-> {}]),
               toRegistry)
    /\ push' = IF Tail(push.order) = <<>> THEN Idle ELSE [push EXCEPT !.order = Tail(@)]
    /\ sourceLocations' = afterSend(sourceLocations, sent')
    /\ UNCHANGED persistedStore
    /\ op' = Op("pushIteration", Head(push.order), hostedSources[Head(push.order)])
    /\ emitted' = <<>>
    /\ UNCHANGED <<state, toNode, regTable, sourceSignature, reconnected, otherVars>>

(* ---------------------- registry source (3, 4.1) ----------------------- *)

\* a registry source that lets the latest add-notification win
registryAddSource_Overwrite(table, name, url) ==
    [table |-> insert(table, name, url), emitted |-> <<AddedSignal(name, url)>>, warned |-> {}]

\* addSource on the registry source: a claimed name is rejected, not overwritten
registryAddSource(table, name, url) ==
    IF contains(table, name)
    THEN [table |-> table, emitted |-> <<>>, warned |-> {Warning(name, AnotherSource)}]
    ELSE [table |-> insert(table, name, url), emitted |-> <<AddedSignal(name, url)>>, warned |-> {}]

\* a registry source that removes an entry without a notification
registryRemoveSource_Quiet(table, name, url) ==
    IF contains(table, name) /\ table[name] = url
    THEN [table |-> remove(table, name), emitted |-> <<>>, warned |-> {}]
    ELSE [table |-> table, emitted |-> <<>>, warned |-> {}]

\* removeSource on the registry source: only the endpoint that holds the name removes it
registryRemoveSource(table, name, url) ==
    IF contains(table, name) /\ table[name] = url
    THEN [table |-> remove(table, name), emitted |-> <<RemovedSignal(name, url)>>, warned |-> {}]
    ELSE [table |-> table, emitted |-> <<>>, warned |-> {}]

\* the registry source stores the table and notifies the replicas it serves
Publish(r) ==
    /\ listening => Len(toNode) + Len(r.emitted) <= MaxQueue
    /\ regTable' = r.table
    /\ toNode' = IF listening THEN toNode \o r.emitted ELSE toNode
    /\ emitted' = r.emitted
    /\ warned' = r.warned
    /\ sent' = <<>>
    /\ announced' = announced

\* the registry source reads an add-notification of this node
RegistryAddSource ==
    /\ toRegistry # <<>>
    /\ Head(toRegistry).type = "AddSource"
    /\ Publish(registryAddSource(regTable, Head(toRegistry).name, Head(toRegistry).url))
    /\ toRegistry' = Tail(toRegistry)
    /\ UNCHANGED persistedStore
    /\ op' = Op("RegistryAddSource", Head(toRegistry).name, Head(toRegistry).url)
    /\ UNCHANGED <<state, hostedSources, sourceLocations, sourceSignature, reconnected, push, otherVars>>

\* the registry source reads a remove-notification of this node
RegistryRemoveSource ==
    /\ toRegistry # <<>>
    /\ Head(toRegistry).type = "RemoveSource"
    /\ Publish(registryRemoveSource(regTable, Head(toRegistry).name, Head(toRegistry).url))
    /\ toRegistry' = Tail(toRegistry)
    /\ UNCHANGED persistedStore
    /\ op' = Op("RegistryRemoveSource", Head(toRegistry).name, Head(toRegistry).url)
    /\ UNCHANGED <<state, hostedSources, sourceLocations, sourceSignature, reconnected, push, otherVars>>

\* the registry source reads an add-notification of another node
RemoteAddSource(name, url) ==
    /\ Publish(registryAddSource(regTable, name, url))
    /\ UNCHANGED persistedStore
    /\ op' = Op("RemoteAddSource", name, url)
    /\ UNCHANGED <<state, hostedSources, sourceLocations, toRegistry, sourceSignature, reconnected, push, otherVars>>

\* the registry source reads a remove-notification of another node
RemoteRemoveSource(name, url) ==
    /\ Publish(registryRemoveSource(regTable, name, url))
    /\ UNCHANGED persistedStore
    /\ op' = Op("RemoteRemoveSource", name, url)
    /\ UNCHANGED <<state, hostedSources, sourceLocations, toRegistry, sourceSignature, reconnected, push, otherVars>>

(* ------------- Replica: synchronization and invocation (4.3) ----------- *)

\* capacity of each direction of the connection between Replica and Source
MaxLink == 2
\* the number of method calls a caller makes on the Replica
MaxCalls == 2

\* the properties of the replicated object, by index, and their values
Properties == 1..2
Values == {"v1", "v2"}
Default == "default"
Defaults == [i \in Properties |-> Default]
Snapshots == [Properties -> Values]
Signatures == {ExpectedSignature, OtherSignature}

\* the wire packets of section 6 that one object exchanges with its Source
Handshake(sig) == [type |-> "Handshake", signature |-> sig]
ObjectInitReply(sig, values) == [type |-> "InitReply", signature |-> sig, propertyValues |-> values]
PropertyChanged(index, value) == [type |-> "PropertyChanged", index |-> index, value |-> value]
WriteProperty(index, value) == [type |-> "WriteProperty", index |-> index, value |-> value]
Invoke(callId) == [type |-> "Invoke", callId |-> callId]
InvokeReply(callId) == [type |-> "InvokeReply", callId |-> callId]

\* what the last step of the protocol was, on what, and what the caller got
Step(kind, arg, result) == [kind |-> kind, arg |-> arg, result |-> result]

\* a Replica after construction: Uninitialized, default property values, no call
NewReplica ==
    [state |-> "Uninitialized", signature |-> ExpectedSignature, cachedProperties |-> Defaults,
     pendingCalls |-> {}, calls |-> <<>>, released |-> FALSE]
NoLink == [up |-> FALSE, toSource |-> <<>>, toReplica |-> <<>>]
\* a Source object with this signature
NewSource(sig) == [signature |-> sig, properties |-> [i \in Properties |-> "v1"]]

\* the result slot of a call: its outcome and how often it has been resolved
Slot(outcome, resolutions) == [outcome |-> outcome, resolutions |-> resolutions]

\* the call with this correlation id is resolved: its slot gets the outcome and
\* the id is no longer outstanding
resolve(r, id, outcome) ==
    [r EXCEPT !.pendingCalls = @ \ {id},
              !.calls[id] = Slot(outcome, r.calls[id].resolutions + 1)]

\* a Replica that forgets its outstanding calls without resolving them
cancelPendingCalls_Forget(r) == [r EXCEPT !.pendingCalls = {}]

\* every outstanding call is resolved with the connection-lost failure
cancelPendingCalls(r) ==
    [r EXCEPT !.pendingCalls = {},
              !.calls = [id \in DOMAIN r.calls |->
                            IF id \in r.pendingCalls
                            THEN Slot("failed", r.calls[id].resolutions + 1)
                            ELSE r.calls[id]]]

\* a state machine in which SignatureMismatch can be left like any other state
setReplicaState_NotTerminal(r, st) ==
    IF r.state = "Valid" /\ st # "Valid"
    THEN cancelPendingCalls([r EXCEPT !.state = st])
    ELSE [r EXCEPT !.state = st]

\* the state of a Replica changes: SignatureMismatch is terminal, and leaving
\* Valid cancels the outstanding calls
setReplicaState(r, st) ==
    IF r.state = "SignatureMismatch" THEN r
    ELSE IF r.state = "Valid" /\ st # "Valid"
    THEN cancelPendingCalls([r EXCEPT !.state = st])
    ELSE [r EXCEPT !.state = st]

\* a Replica that adopts every initialization reply
initialize_AnySignature(r, p) ==
    IF r.state # "Connecting" THEN r
    ELSE setReplicaState([r EXCEPT !.cachedProperties = p.propertyValues], "Valid")

\* initialization reply: equal signatures adopt the snapshot and enter Valid,
\* different signatures enter SignatureMismatch with default property values;
\* a reply that reaches a Replica which is not Connecting is dropped
initialize(r, p) ==
    IF r.state # "Connecting" THEN r
    ELSE IF p.signature = r.signature
    THEN setReplicaState([r EXCEPT !.cachedProperties = p.propertyValues], "Valid")
    ELSE setReplicaState([r EXCEPT !.cachedProperties = Defaults], "SignatureMismatch")

\* a property read on the Replica: the cached value
propAsVariant(r, index) == r.cachedProperties[index]

\* a property-change packet updates one cache slot of a Valid Replica
propertyChanged(r, p) ==
    IF r.state = "Valid" THEN [r EXCEPT !.cachedProperties[p.index] = p.value] ELSE r

\* a reply packet resolves the outstanding call with the same correlation id
invokeReply(r, p) ==
    IF p.callId \in r.pendingCalls THEN resolve(r, p.callId, "value") ELSE r

\* the Replica processes one incoming packet
receive(r, p) ==
    IF p.type = "InitReply" THEN initialize(r, p)
    ELSE IF p.type = "PropertyChanged" THEN propertyChanged(r, p)
    ELSE invokeReply(r, p)

\* link loss that drops the cached property values
setDisconnected_ClearCache(r) == setReplicaState([r EXCEPT !.cachedProperties = Defaults], "Suspect")

\* link loss: the Replica becomes Suspect and keeps its cached property values
setDisconnected(r) == setReplicaState(r, "Suspect")

\* a method call that waits for the connection whatever the state is
call_AlwaysPending(r) ==
    LET id == Len(r.calls) + 1 IN
    [r EXCEPT !.pendingCalls = @ \cup {id}, !.calls = Append(@, Slot("pending", 0))]

\* a method call: a Valid Replica allocates the next correlation id and a
\* pending result slot; in every other state the call fails at once
call(r) ==
    LET id == Len(r.calls) + 1 IN
    IF r.state = "Valid"
    THEN [r EXCEPT !.pendingCalls = @ \cup {id}, !.calls = Append(@, Slot("pending", 0))]
    ELSE [r EXCEPT !.calls = Append(@, Slot("failed", 1))]

\* acquisition request: the Replica connects to the Source and sends the
\* handshake with its expected signature
ReplicaAcquire ==
    /\ ~replica.released
    /\ replica.state = "Uninitialized"
    /\ replica' = setReplicaState(replica, "Connecting")
    /\ link' = [up |-> TRUE, toSource |-> <<Handshake(replica.signature)>>, toReplica |-> <<>>]
    /\ UNCHANGED persistedStore
    /\ op' = Step("Acquire", "", "")
    /\ UNCHANGED <<source, registryVars, generatorVars, connectionVars, modelVars>>

\* the Source reads one packet of the Replica: it answers a handshake with its
\* signature and a snapshot of its properties, a method call with a reply, and
\* applies a property write, which it then reports as a property change
SourceProcess ==
    /\ ~replica.released
    /\ link.up
    /\ link.toSource # <<>>
    /\ LET p == Head(link.toSource)
           reply == IF p.type = "Handshake"
                    THEN <<ObjectInitReply(source.signature, source.properties)>>
                    ELSE IF p.type = "Invoke" THEN <<InvokeReply(p.callId)>>
                    ELSE IF source.properties[p.index] # p.value
                    THEN <<PropertyChanged(p.index, p.value)>>
                    ELSE <<>>
       IN /\ Len(link.toReplica) + Len(reply) <= MaxLink
          /\ link' = [link EXCEPT !.toSource = Tail(@), !.toReplica = @ \o reply]
          /\ source' = IF p.type = "WriteProperty"
                       THEN [source EXCEPT !.properties[p.index] = p.value]
                       ELSE source
          /\ UNCHANGED persistedStore
          /\ op' = Step("SourceProcess", p, reply)
    /\ UNCHANGED <<replica, registryVars, generatorVars, connectionVars, modelVars>>

\* a property of the Source object changes; a connected Replica is told
SourceSet(index, value) ==
    /\ ~replica.released
    /\ source.properties[index] # value
    /\ link.up => Len(link.toReplica) < MaxLink
    /\ source' = [source EXCEPT !.properties[index] = value]
    /\ link' = IF link.up THEN [link EXCEPT !.toReplica = Append(@, PropertyChanged(index, value))]
               ELSE link
    /\ UNCHANGED persistedStore
    /\ op' = Step("SourceSet", index, value)
    /\ UNCHANGED <<replica, registryVars, generatorVars, connectionVars, modelVars>>

\* the Replica reads the next packet of its Source
ReplicaReceive ==
    /\ ~replica.released
    /\ link.up
    /\ link.toReplica # <<>>
    /\ replica' = receive(replica, Head(link.toReplica))
    /\ link' = [link EXCEPT !.toReplica = Tail(@)]
    /\ UNCHANGED persistedStore
    /\ op' = Step("Receive", Head(link.toReplica), "")
    /\ UNCHANGED <<source, registryVars, generatorVars, connectionVars, modelVars>>

\* a caller invokes a method of the Replica and gets the handle of its result slot
ReplicaCall ==
    /\ ~replica.released
    /\ Len(replica.calls) < MaxCalls
    /\ replica.state = "Valid" => Len(link.toSource) < MaxLink
    /\ replica' = call(replica)
    /\ link' = IF replica.state = "Valid"
               THEN [link EXCEPT !.toSource = Append(@, Invoke(Len(replica.calls) + 1))]
               ELSE link
    /\ UNCHANGED persistedStore
    /\ op' = Step("Call", Len(replica.calls) + 1, replica'.calls[Len(replica.calls) + 1].outcome)
    /\ UNCHANGED <<source, registryVars, generatorVars, connectionVars, modelVars>>

\* a caller writes a property of the Replica: a Valid Replica serializes the
\* write, in every other state it is refused; the cache is left to the Source
ReplicaWrite(index, value) ==
    /\ ~replica.released
    /\ replica.state = "Valid" => Len(link.toSource) < MaxLink
    /\ link' = IF replica.state = "Valid"
               THEN [link EXCEPT !.toSource = Append(@, WriteProperty(index, value))]
               ELSE link
    /\ UNCHANGED persistedStore
    /\ op' = Step("Write", index, IF replica.state = "Valid" THEN "sent" ELSE "refused")
    /\ UNCHANGED <<replica, source, registryVars, generatorVars, connectionVars, modelVars>>

\* the connection is lost with everything that was in flight on it
ReplicaLinkLoss ==
    /\ ~replica.released
    /\ link.up
    /\ replica' = setDisconnected(replica)
    /\ link' = NoLink
    /\ UNCHANGED persistedStore
    /\ op' = Step("LinkLoss", replica.pendingCalls, "")
    /\ UNCHANGED <<source, registryVars, generatorVars, connectionVars, modelVars>>

\* the transport reconnects, possibly to a Source of another version; a
\* Suspect Replica re-enters Connecting with a new handshake
ReplicaReconnect ==
    /\ ~replica.released
    /\ ~link.up
    /\ replica.state \in {"Suspect", "SignatureMismatch"}
    /\ \E sig \in Signatures : source' = [source EXCEPT !.signature = sig]
    /\ replica' = setReplicaState(replica, "Connecting")
    /\ link' = [up |-> TRUE,
                toSource |-> IF replica'.state = "Connecting"
                             THEN <<Handshake(replica.signature)>> ELSE <<>>,
                toReplica |-> <<>>]
    /\ UNCHANGED persistedStore
    /\ op' = Step("Reconnect", "", "")
    /\ UNCHANGED <<registryVars, generatorVars, connectionVars, modelVars>>

\* the handle of the Replica is released: its outstanding calls are cancelled
ReplicaRelease ==
    /\ ~replica.released
    /\ replica' = [cancelPendingCalls(replica) EXCEPT !.released = TRUE]
    /\ UNCHANGED persistedStore
    /\ op' = Step("Release", replica.pendingCalls, "")
    /\ UNCHANGED <<source, link, registryVars, generatorVars, connectionVars, modelVars>>

(* ------------- one connection shared by several objects (4.3, 5) ------- *)

\* the number of packets sent for one object
MaxPackets == 3

\* the objects whose packets share the connection
Objects == {"objA", "objB"}

\* the k-th packet sent for an object
Packet(object, seq) == [object |-> object, seq |-> seq]

\* the packets of the sequence s that are addressed to object o, in the order of s
packetsOf(s, o) == SelectSeq(s, LAMBDA p : p.object = o)

\* a connection on which nothing has been sent: the packets written to it, the
\* logical stream of every object, and the packets the receiver has processed
NewConnection ==
    [sent |-> <<>>, streams |-> [o \in Objects |-> <<>>], processed |-> <<>>]

\* the single writer of the connection writes one more packet for object o
write(c, o) ==
    LET p == Packet(o, Len(packetsOf(c.sent, o)) + 1) IN
    [c EXCEPT !.sent = Append(@, p), !.streams[o] = Append(@, p)]

\* a receiver that takes the packet written last for the object
dispatch_NewestFirst(c, o) ==
    [c EXCEPT !.processed = Append(@, c.streams[o][Len(c.streams[o])]),
              !.streams[o] = SubSeq(@, 1, Len(@) - 1)]

\* the receiver processes the next packet of the logical stream of object o
dispatch(c, o) ==
    [c EXCEPT !.processed = Append(@, Head(c.streams[o])), !.streams[o] = Tail(@)]

\* a packet for object o is sent
ConnectionSend(o) ==
    /\ Len(packetsOf(connection.sent, o)) < MaxPackets
    /\ connection' = write(connection, o)
    /\ UNCHANGED persistedStore
    /\ op' = Step("Send", o, "")
    /\ UNCHANGED <<registryVars, generatorVars, replicaVars, modelVars>>

\* a packet of object o is processed; which object is served next is not fixed
ConnectionDispatch(o) ==
    /\ connection.streams[o] # <<>>
    /\ connection' = dispatch(connection, o)
    /\ UNCHANGED persistedStore
    /\ op' = Step("Dispatch", o, "")
    /\ UNCHANGED <<registryVars, generatorVars, replicaVars, modelVars>>

(* ------------------- Model Replication Cache (4.4) --------------------- *)

\* the number of packets in flight between the source model and its replica
MaxModelLink == 2
\* the number of changes (setData, insertRows, removeRows) made to the source model
MaxChanges == 2
\* the number of nodes the source model creates
MaxNodes == 2

\* the roles the model is remoted with (Qt::DisplayRole, Qt::BackgroundRole)
Roles == {"display", "background"}
\* the invalid index QModelIndex(), the parent of the top-level rows
Root == 0
\* what the replica holds for a cell and role whose value it has not received
NotCached == "not cached"

\* the rows start..end of the InsertedRow / signal arguments (parent, start, end)
InsertedRow(index, start, end) == [index |-> index, start |-> start, end |-> end]

\* InsertedRow::match(signal): same parent, same start, same end
match(row, signal) ==
    /\ row.index = signal.index
    /\ row.start = signal.start
    /\ row.end = signal.end

\* the verdict of waitForSignal(storage, spy): every stored row was matched by
\* a recorded signal, and as many signals were recorded as rows were stored
waitForSignal(storage, signals) ==
    /\ \A k \in 1..Len(storage) : \E i \in 1..Len(signals) : match(storage[k], signals[i])
    /\ Len(signals) = Len(storage)

\* a model of stable nodes 1..created: rows[p] lists the child rows of parent p
\* in row order, data[n][role] is the value of node n (one column)
ItemModel(rows, data) ==
    [rows |-> rows, data |-> data, created |-> Len(data), roleNames |-> Roles]

\* QStandardItemModel without rows, with two top-level rows, and with a
\* top-level row that has a child row
EmptyModel == ItemModel([p \in {Root} |-> <<>>], <<>>)
FlatModel ==
    ItemModel([p \in 0..2 |-> IF p = Root THEN <<1, 2>> ELSE <<>>],
              [n \in 1..2 |-> [role \in Roles |->
                  IF role # "display" THEN Default ELSE IF n = 1 THEN "v1" ELSE "v2"]])
TreeModel ==
    ItemModel([p \in 0..2 |-> IF p = Root THEN <<1>> ELSE IF p = 1 THEN <<2>> ELSE <<>>],
              [n \in 1..2 |-> [role \in Roles |-> IF role = "display" THEN "v1" ELSE Default]])

rowCount(m, parent) == Len(m.rows[parent])
columnCount(m, parent) == IF m.rows[parent] = <<>> THEN 0 ELSE 1
\* index(row, 0, parent): the node in that row; rows are counted from 1
index(m, row, parent) == m.rows[parent][row]

\* the elements of a sequence
Range(s) == {s[k] : k \in 1..Len(s)}
\* the nodes of the model: the top-level rows and their child rows
nodes(m) == Range(m.rows[Root]) \cup UNION {Range(m.rows[n]) : n \in Range(m.rows[Root])}
\* the parents rows can be inserted under: the root and the top-level rows
parents(m) == {Root} \cup Range(m.rows[Root])

\* an insertion that puts the new rows behind the last row of the parent
insertRows_AtEnd(m, parent, first, count, value) ==
    LET new == [k \in 1..count |-> m.created + k] IN
    [m EXCEPT !.rows = [p \in 0..(m.created + count) |->
                           IF p = parent THEN m.rows[p] \o new
                           ELSE IF p <= m.created THEN m.rows[p] ELSE <<>>],
              !.data = m.data \o [k \in 1..count |-> [role \in Roles |-> value]],
              !.created = m.created + count]

\* count new rows start at row first under parent; the new nodes get the next
\* identifiers and hold `value` for every role; the rows behind them are renumbered
insertRows(m, parent, first, count, value) ==
    LET new == [k \in 1..count |-> m.created + k] IN
    [m EXCEPT !.rows = [p \in 0..(m.created + count) |->
                           IF p = parent
                           THEN SubSeq(m.rows[p], 1, first - 1) \o new
                                \o SubSeq(m.rows[p], first, Len(m.rows[p]))
                           ELSE IF p <= m.created THEN m.rows[p] ELSE <<>>],
              !.data = m.data \o [k \in 1..count |-> [role \in Roles |-> value]],
              !.created = m.created + count]

\* the rows first..first+count-1 under parent are removed with their child
\* rows; the rows behind them are renumbered; what was held for the removed
\* nodes is forgotten
removeRows(m, parent, first, count, value) ==
    LET gone == {m.rows[parent][k] : k \in first..(first + count - 1)}
        below == gone \cup UNION {Range(m.rows[g]) : g \in gone}
    IN [m EXCEPT !.rows = [p \in DOMAIN m.rows |->
                              IF p = parent
                              THEN SubSeq(m.rows[p], 1, first - 1)
                                   \o SubSeq(m.rows[p], first + count, Len(m.rows[p]))
                              ELSE IF p \in below THEN <<>> ELSE m.rows[p]],
                 !.data = [k \in DOMAIN m.data |->
                              IF k \in below THEN [role \in Roles |-> value] ELSE m.data[k]]]

\* the model-specific wire packets of section 6
DataRequest(node, role) == [type |-> "DataRequest", node |-> node, role |-> role]
DataReply(node, role, value) == [type |-> "DataReply", node |-> node, role |-> role, value |-> value]
DataChanged(node, role, value) == [type |-> "DataChanged", node |-> node, role |-> role, value |-> value]
RowsInserted(parent, first, last) == [type |-> "RowsInserted", index |-> parent, start |-> first, end |-> last]
RowsRemoved(parent, first, last) == [type |-> "RowsRemoved", index |-> parent, start |-> first, end |-> last]
\* the write that setData of the replica forwards to the source model
SetData(node, role, value) == [type |-> "SetData", node |-> node, role |-> role, value |-> value]

\* QAbstractItemModelReplica::hasData(index, role)
hasData(m, node, role) == m.data[node][role] # NotCached

\* a fetch that hands out whatever the cache slot holds
data_Raw(m, node, role) == m.data[node][role]

\* QAbstractItemModelReplica::data(index, role): the cached value, or a default
\* value while the value is not cached
data(m, node, role) == IF hasData(m, node, role) THEN m.data[node][role] ELSE Default

\* a replica that requests a value again although it is cached
request_Always(m, node, role) == <<DataRequest(node, role)>>

\* the request that data(index, role) issues: none for a cached value
request(m, node, role) == IF hasData(m, node, role) THEN <<>> ELSE <<DataRequest(node, role)>>

\* a replica that files an arriving value under every role of its node
store_EveryRole(m, p) ==
    IF p.node \in nodes(m) THEN [m EXCEPT !.data[p.node] = [role \in Roles |-> p.value]] ELSE m

\* a replica that takes the node of an arriving value for a row number of the
\* top level
store_ByRow(m, p) ==
    IF p.node <= rowCount(m, Root)
    THEN [m EXCEPT !.data[index(m, p.node, Root)][p.role] = p.value] ELSE m

\* a replica that keeps what it had cached when a value arrives
store_Keep(m, p) ==
    IF p.node \in nodes(m) /\ ~hasData(m, p.node, p.role)
    THEN [m EXCEPT !.data[p.node][p.role] = p.value] ELSE m

\* the value of a DataReply or DataChanged packet goes into the cache slot of
\* its node and role; a packet for a node the replica no longer has is dropped
store(m, p) ==
    IF p.node \in nodes(m) THEN [m EXCEPT !.data[p.node][p.role] = p.value] ELSE m

\* a replica that reports an insertion or removal by its first row only
notification_FirstRow(m, p) ==
    IF p.type \in {"DataReply", "DataChanged"}
    THEN IF p.node \in nodes(m) THEN <<[type |-> "dataChanged", node |-> p.node]>> ELSE <<>>
    ELSE IF p.type = "RowsInserted"
    THEN <<[type |-> "rowsInserted", index |-> p.index, start |-> p.start, end |-> p.start]>>
    ELSE <<[type |-> "rowsRemoved", index |-> p.index, start |-> p.start, end |-> p.start]>>

\* the notification that the replica emits for a packet it has processed
notification(m, p) ==
    IF p.type \in {"DataReply", "DataChanged"}
    THEN IF p.node \in nodes(m) THEN <<[type |-> "dataChanged", node |-> p.node]>> ELSE <<>>
    ELSE IF p.type = "RowsInserted"
    THEN <<[type |-> "rowsInserted", index |-> p.index, start |-> p.start, end |-> p.end]>>
    ELSE <<[type |-> "rowsRemoved", index |-> p.index, start |-> p.start, end |-> p.end]>>

\* a replica that drops the last rows of the parent when rows were removed
apply_LastRows(m, p) ==
    IF p.type \in {"DataReply", "DataChanged"} THEN store(m, p)
    ELSE IF p.type = "RowsInserted"
    THEN insertRows(m, p.index, p.start, p.end - p.start + 1, NotCached)
    ELSE removeRows(m, p.index, rowCount(m, p.index) - (p.end - p.start), p.end - p.start + 1, NotCached)

\* the replica after it has processed one packet of the source model
apply(m, p) ==
    IF p.type \in {"DataReply", "DataChanged"} THEN store(m, p)
    ELSE IF p.type = "RowsInserted"
    THEN insertRows(m, p.index, p.start, p.end - p.start + 1, NotCached)
    ELSE removeRows(m, p.index, p.start, p.end - p.start + 1, NotCached)

\* the signal spies of a test on rowsInserted and rowsRemoved of the replica,
\* and the rows the test expects (insertedRows, removedRows)
NoSignals ==
    [rowsInserted |-> <<>>, rowsRemoved |-> <<>>, insertedRows |-> <<>>, removedRows |-> <<>>]

\* a spy records the notification it is connected to; rowSpy is not connected
\* to dataChanged
record(s, signals) ==
    IF signals = <<>> \/ signals[1].type = "dataChanged" THEN s
    ELSE IF signals[1].type = "rowsInserted"
    THEN [s EXCEPT !.rowsInserted = Append(@, InsertedRow(signals[1].index, signals[1].start, signals[1].end))]
    ELSE [s EXCEPT !.rowsRemoved = Append(@, InsertedRow(signals[1].index, signals[1].start, signals[1].end))]

\* the model replica before acquireModel
NoReplica == [initialized |-> FALSE, rows |-> [p \in {Root} |-> <<>>], data |-> <<>>,
              created |-> 0, roleNames |-> {}]
\* the packets on the way between the source model and its replica
inFlight(l) == Len(l.toSource) + Len(l.toReplica)
NoModelLink == [toSource |-> <<>>, toReplica |-> <<>>, changes |-> 0]

\* client.acquireModel(name) with FetchRootSize up to the initialized signal:
\* the replica knows the role names and the rows of the model, and no data
ModelAcquire ==
    /\ ~model.initialized
    /\ model' = [initialized |-> TRUE, rows |-> sourceModel.rows,
                 data |-> [n \in DOMAIN sourceModel.data |-> [role \in Roles |-> NotCached]],
                 created |-> sourceModel.created, roleNames |-> sourceModel.roleNames]
    /\ UNCHANGED persistedStore
    /\ op' = Step("acquireModel", "", "")
    /\ UNCHANGED <<sourceModel, modelLink, spy, registryVars, generatorVars, replicaVars, connectionVars>>

\* model->data(model->index(row, 0, parent), role): the fetch of section 4.4
ModelFetch(parent, row, role) ==
    /\ model.initialized
    /\ parent \in parents(model)
    /\ row \in 1..rowCount(model, parent)
    /\ LET node == index(model, row, parent)
           req == request(model, node, role)
       IN /\ inFlight(modelLink) + Len(req) <= MaxModelLink
          /\ modelLink' = [modelLink EXCEPT !.toSource = @ \o req]
          /\ UNCHANGED persistedStore
          /\ op' = Step("data", [node |-> node, role |-> role, request |-> req],
                        data(model, node, role))
    /\ UNCHANGED <<sourceModel, model, spy, registryVars, generatorVars, replicaVars, connectionVars>>

\* the source side answers a data request; a node it does not have is answered
\* with a default value
SourceReply ==
    /\ modelLink.toSource # <<>>
    /\ Head(modelLink.toSource).type = "DataRequest"
    /\ LET p == Head(modelLink.toSource)
           value == IF p.node \in nodes(sourceModel) THEN sourceModel.data[p.node][p.role]
                    ELSE Default
       IN /\ modelLink' = [modelLink EXCEPT !.toSource = Tail(@),
                                            !.toReplica = Append(@, DataReply(p.node, p.role, value))]
          /\ UNCHANGED persistedStore
          /\ op' = Step("DataRequest", p, value)
    /\ UNCHANGED <<sourceModel, model, spy, registryVars, generatorVars, replicaVars, connectionVars>>

\* the replica processes the next packet of the source model and emits its
\* notification, which the spies record
ModelReceive ==
    /\ model.initialized
    /\ modelLink.toReplica # <<>>
    /\ LET p == Head(modelLink.toReplica) IN
       /\ model' = apply(model, p)
       /\ spy' = record(spy, notification(model, p))
       /\ UNCHANGED persistedStore
       /\ op' = Step("receive", p, notification(model, p))
    /\ modelLink' = [modelLink EXCEPT !.toReplica = Tail(@)]
    /\ UNCHANGED <<sourceModel, registryVars, generatorVars, replicaVars, connectionVars>>

\* m_sourceModel.setData(index, value, role) with a value the cell does not hold
SourceSetData(node, role, value) ==
    /\ model.initialized
    /\ modelLink.changes < MaxChanges
    /\ node \in nodes(sourceModel)
    /\ sourceModel.data[node][role] # value
    /\ inFlight(modelLink) < MaxModelLink
    /\ sourceModel' = [sourceModel EXCEPT !.data[node][role] = value]
    /\ modelLink' = [modelLink EXCEPT !.toReplica = Append(@, DataChanged(node, role, value)),
                                      !.changes = @ + 1]
    /\ UNCHANGED persistedStore
    /\ op' = Step("setData", [node |-> node, role |-> role], value)
    /\ UNCHANGED <<model, spy, registryVars, generatorVars, replicaVars, connectionVars>>

\* m_sourceModel.insertRows(first, count, parent); the test notes the rows it
\* expects a rowsInserted signal for
SourceInsertRows(parent, first, count) ==
    /\ model.initialized
    /\ modelLink.changes < MaxChanges
    /\ parent \in parents(sourceModel)
    /\ first \in 1..(rowCount(sourceModel, parent) + 1)
    /\ sourceModel.created + count <= MaxNodes
    /\ inFlight(modelLink) < MaxModelLink
    /\ sourceModel' = insertRows(sourceModel, parent, first, count, Default)
    /\ modelLink' = [modelLink EXCEPT
                        !.toReplica = Append(@, RowsInserted(parent, first, first + count - 1)),
                        !.changes = @ + 1]
    /\ spy' = [spy EXCEPT !.insertedRows = Append(@, InsertedRow(parent, first, first + count - 1))]
    /\ UNCHANGED persistedStore
    /\ op' = Step("insertRows", InsertedRow(parent, first, first + count - 1), "")
    /\ UNCHANGED <<model, registryVars, generatorVars, replicaVars, connectionVars>>

\* m_sourceModel.removeRows(first, count, parent); the test notes the rows it
\* expects a rowsRemoved signal for
SourceRemoveRows(parent, first, count) ==
    /\ model.initialized
    /\ modelLink.changes < MaxChanges
    /\ parent \in parents(sourceModel)
    /\ first >= 1
    /\ first + count - 1 <= rowCount(sourceModel, parent)
    /\ inFlight(modelLink) < MaxModelLink
    /\ sourceModel' = removeRows(sourceModel, parent, first, count, Default)
    /\ modelLink' = [modelLink EXCEPT
                        !.toReplica = Append(@, RowsRemoved(parent, first, first + count - 1)),
                        !.changes = @ + 1]
    /\ spy' = [spy EXCEPT !.removedRows = Append(@, InsertedRow(parent, first, first + count - 1))]
    /\ UNCHANGED persistedStore
    /\ op' = Step("removeRows", InsertedRow(parent, first, first + count - 1), "")
    /\ UNCHANGED <<model, registryVars, generatorVars, replicaVars, connectionVars>>

\* FetchData::fetch before a change of the rows has reached the replica: the
\* requests it issues are outstanding while rows are inserted or removed
FetchEarly(parent, row, role) ==
    /\ spy.rowsInserted = <<>>
    /\ spy.rowsRemoved = <<>>
    /\ ModelFetch(parent, row, role)

\* a source model that takes a write from a replica for every role of the cell
setData_EveryRole(m, node, role, value) ==
    IF node \in nodes(m) THEN [m EXCEPT !.data[node] = [r \in Roles |-> value]] ELSE m

\* QAbstractItemModel::setData(index, value, role) on the source model
setData(m, node, role, value) ==
    IF node \in nodes(m) THEN [m EXCEPT !.data[node][role] = value] ELSE m

\* model->setData(model->index(row, 0, parent), value, role) on the replica,
\* with a value the cell does not show: the write is forwarded to the source
\* model, the call returns true and the cache is left to the change that the
\* source model reports
ReplicaSetData(parent, row, role, value) ==
    /\ model.initialized
    /\ modelLink.changes < MaxChanges
    /\ inFlight(modelLink) < MaxModelLink
    /\ parent \in parents(model)
    /\ row \in 1..rowCount(model, parent)
    /\ LET node == index(model, row, parent) IN
       /\ data(model, node, role) # value
       /\ modelLink' = [modelLink EXCEPT !.toSource = Append(@, SetData(node, role, value)),
                                         !.changes = @ + 1]
       /\ UNCHANGED persistedStore
       /\ op' = Step("setData", [node |-> node, role |-> role, value |-> value], TRUE)
    /\ UNCHANGED <<sourceModel, model, spy, registryVars, generatorVars, replicaVars, connectionVars>>

\* the source side applies a write of a replica to the source model, which
\* emits dataChanged for the cell; the change is sent to the replica
SourceWrite ==
    /\ modelLink.toSource # <<>>
    /\ Head(modelLink.toSource).type = "SetData"
    /\ LET p == Head(modelLink.toSource) IN
       /\ sourceModel' = setData(sourceModel, p.node, p.role, p.value)
       /\ modelLink' = [modelLink EXCEPT
                           !.toSource = Tail(@),
                           !.toReplica = Append(@, DataChanged(p.node, p.role, p.value))]
       /\ UNCHANGED persistedStore
       /\ op' = Step("SetData", p, <<[type |-> "dataChanged", node |-> p.node]>>)
    /\ UNCHANGED <<model, spy, registryVars, generatorVars, replicaVars, connectionVars>>

(* ---------------- row identity across structural changes --------------- *)

\* the number of insertions and removals made to the model of ten rows
MaxEdits == 2

\* the model of section 8 with the rows 0..9
ModelRows == 10

\* the node in the row that a consumer numbers i (rows are numbered from 0 in
\* the interface, and from 1 in rows[parent])
row0(m, i) == index(m, i + 1, Root)

\* a flat model of ModelRows rows; the row numbered i is node i + 1
RowsModel ==
    ItemModel([p \in 0..ModelRows |-> IF p = Root THEN [k \in 1..ModelRows |-> k] ELSE <<>>],
              [n \in 1..ModelRows |-> [role \in Roles |-> Default]])

\* removeRows(first, count) on the source model: the rows numbered
\* first..first+count-1 of the top level
EditRemoveRows(first, count) ==
    /\ model.initialized
    /\ modelLink.changes < MaxEdits
    /\ first + count <= rowCount(sourceModel, Root)
    /\ sourceModel' = removeRows(sourceModel, Root, first + 1, count, Default)
    /\ modelLink' = [modelLink EXCEPT
                        !.toReplica = Append(@, RowsRemoved(Root, first + 1, first + count)),
                        !.changes = @ + 1]
    /\ spy' = [spy EXCEPT !.removedRows = Append(@, InsertedRow(Root, first + 1, first + count))]
    /\ UNCHANGED persistedStore
    /\ op' = Step("removeRows", InsertedRow(Root, first + 1, first + count), "")
    /\ UNCHANGED <<model, registryVars, generatorVars, replicaVars, connectionVars>>

\* insertRows(first, count) on the source model: count new rows, the first of
\* them numbered first
EditInsertRows(first, count) ==
    /\ model.initialized
    /\ modelLink.changes < MaxEdits
    /\ first <= rowCount(sourceModel, Root)
    /\ sourceModel' = insertRows(sourceModel, Root, first + 1, count, Default)
    /\ modelLink' = [modelLink EXCEPT
                        !.toReplica = Append(@, RowsInserted(Root, first + 1, first + count)),
                        !.changes = @ + 1]
    /\ spy' = [spy EXCEPT !.insertedRows = Append(@, InsertedRow(Root, first + 1, first + count))]
    /\ UNCHANGED persistedStore
    /\ op' = Step("insertRows", InsertedRow(Root, first + 1, first + count), "")
    /\ UNCHANGED <<model, registryVars, generatorVars, replicaVars, connectionVars>>

(* -------------------- the bound of the cache (4.4) --------------------- *)

\* the largest cache size a replica is configured with
MaxCacheSize == 2

\* the rows the replica holds role data for
holding(m) == {n \in nodes(m) : \E role \in Roles : hasData(m, n, role)}

\* a value that has arrived for a row the cache does not retain yet makes the
\* row the newest retained row
retain(m, p) ==
    IF p.type \in {"DataReply", "DataChanged"} /\ p.node \in nodes(m)
       /\ p.node \notin Range(m.retained)
    THEN [m EXCEPT !.retained = Append(@, p.node)] ELSE m

\* the rows that lose their role data: none within the limit, else the oldest
evicted(m) == IF Len(m.retained) > m.cacheSize THEN <<Head(m.retained)>> ELSE <<>>

\* a cache that gives up the newest retained row
evict_Newest(m) ==
    IF Len(m.retained) > m.cacheSize
    THEN [m EXCEPT !.retained = SubSeq(@, 1, Len(@) - 1),
                   !.data[m.retained[Len(m.retained)]] = [role \in Roles |-> NotCached]]
    ELSE m

\* once more rows are retained than the cache size, the role data of the
\* oldest retained row is forgotten; the rows themselves stay
evict(m) ==
    IF Len(m.retained) > m.cacheSize
    THEN [m EXCEPT !.retained = Tail(@),
                   !.data[Head(m.retained)] = [role \in Roles |-> NotCached]]
    ELSE m

\* client.acquireModel(name) followed by setRootCacheSize(size)
CacheAcquire(size) ==
    /\ ~model.initialized
    /\ model' = [initialized |-> TRUE, rows |-> sourceModel.rows,
                 data |-> [n \in DOMAIN sourceModel.data |-> [role \in Roles |-> NotCached]],
                 created |-> sourceModel.created, roleNames |-> sourceModel.roleNames,
                 retained |-> <<>>, cacheSize |-> size]
    /\ UNCHANGED persistedStore
    /\ op' = Step("acquireModel", size, "")
    /\ UNCHANGED <<sourceModel, modelLink, spy, registryVars, generatorVars, replicaVars, connectionVars>>

\* the replica with a bounded cache processes the next packet of the source
\* model: it stores the value, retains the row and evicts beyond the limit
CacheReceive ==
    /\ model.initialized
    /\ modelLink.toReplica # <<>>
    /\ LET p == Head(modelLink.toReplica)
           m == retain(apply(model, p), p)
       IN /\ model' = evict(m)
          /\ spy' = record(spy, notification(model, p))
          /\ UNCHANGED persistedStore
          /\ op' = [kind |-> "receive", arg |-> p, result |-> notification(model, p),
                    evicted |-> evicted(m)]
    /\ modelLink' = [modelLink EXCEPT !.toReplica = Tail(@)]
    /\ UNCHANGED <<sourceModel, registryVars, generatorVars, replicaVars, connectionVars>>

(* ------------------- the initial action (4.4) -------------------------- *)

\* QtRemoteObjects::InitialAction
InitialActions == {"FetchRootSize", "PrefetchData"}

\* the packets of the acquisition of a model: the request of the replica and
\* the reply with the size of the model (its rows and role names)
ModelInit == [type |-> "ModelInit"]
SizeReply(m) ==
    [type |-> "SizeReply", rows |-> m.rows, created |-> m.created, roleNames |-> m.roleNames]

\* the roles in the order in which the replica requests them
RoleOrder == <<"display", "background">>

\* a prefetch that asks for the first role only
prefetch_FirstRole(m) ==
    [k \in 1..rowCount(m, Root) |-> DataRequest(index(m, k, Root), RoleOrder[1])]

\* the requests of the prefetch: every role of every top-level row
prefetch(m) ==
    [k \in 1..(rowCount(m, Root) * Len(RoleOrder)) |->
        DataRequest(index(m, ((k - 1) \div Len(RoleOrder)) + 1, Root),
                    RoleOrder[((k - 1) % Len(RoleOrder)) + 1])]

\* client.acquireModel(name, action): the replica asks for the size of the model
AcquireModel(action) ==
    /\ model = NoReplica
    /\ modelLink = NoModelLink
    /\ model' = [initialized |-> FALSE, rows |-> NoReplica.rows, data |-> <<>>, created |-> 0,
                 roleNames |-> {}, action |-> action, awaiting |-> <<>>]
    /\ modelLink' = [modelLink EXCEPT !.toSource = <<ModelInit>>]
    /\ UNCHANGED persistedStore
    /\ op' = Step("acquireModel", action, "")
    /\ UNCHANGED <<sourceModel, spy, registryVars, generatorVars, replicaVars, connectionVars>>

\* the source side answers the request with the size of the model
SourceInit ==
    /\ modelLink.toSource # <<>>
    /\ Head(modelLink.toSource).type = "ModelInit"
    /\ modelLink' = [modelLink EXCEPT !.toSource = Tail(@),
                                      !.toReplica = Append(@, SizeReply(sourceModel))]
    /\ UNCHANGED persistedStore
    /\ op' = Step("ModelInit", "", "")
    /\ UNCHANGED <<sourceModel, model, spy, registryVars, generatorVars, replicaVars, connectionVars>>

\* the replica receives the size of the model: with FetchRootSize, or when
\* there is nothing to prefetch, it emits initialized; with PrefetchData it
\* requests the data of the top-level rows first
SizeReceive ==
    /\ ~model.initialized
    /\ modelLink.toReplica # <<>>
    /\ Head(modelLink.toReplica).type = "SizeReply"
    /\ LET p == Head(modelLink.toReplica)
           m == [model EXCEPT !.rows = p.rows, !.created = p.created,
                              !.roleNames = p.roleNames,
                              !.data = [n \in 1..p.created |-> [role \in Roles |-> NotCached]]]
           req == IF model.action = "PrefetchData" THEN prefetch(m) ELSE <<>>
       IN /\ model' = [m EXCEPT !.awaiting = req, !.initialized = (req = <<>>)]
          /\ modelLink' = [modelLink EXCEPT !.toReplica = Tail(@), !.toSource = @ \o req]
          /\ UNCHANGED persistedStore
          /\ op' = Step(IF req = <<>> THEN "initialized" ELSE "prefetch", p, req)
    /\ UNCHANGED <<sourceModel, spy, registryVars, generatorVars, replicaVars, connectionVars>>

\* the replica receives a value of the prefetch; with the last one it emits
\* initialized
PrefetchReceive ==
    /\ ~model.initialized
    /\ modelLink.toReplica # <<>>
    /\ Head(modelLink.toReplica).type = "DataReply"
    /\ LET p == Head(modelLink.toReplica)
           m == store(model, p)
           rest == SelectSeq(model.awaiting, LAMBDA r : r # DataRequest(p.node, p.role))
       IN /\ model' = [m EXCEPT !.awaiting = rest, !.initialized = (rest = <<>>)]
          /\ UNCHANGED persistedStore
          /\ op' = Step(IF rest = <<>> THEN "initialized" ELSE "prefetch", p, <<>>)
    /\ modelLink' = [modelLink EXCEPT !.toReplica = Tail(@)]
    /\ UNCHANGED <<sourceModel, spy, registryVars, generatorVars, replicaVars, connectionVars>>

(* ------------------------ repc: the code generator --------------------- *)

\* a QString is the sequence of its characters; the characters that the
\* interface descriptions below use, with their Latin-1 codes
Latin1 ==
    ("A" :> 65) @@ ("B" :> 66) @@ ("E" :> 69) @@ ("G" :> 71) @@ ("P" :> 80) @@ ("T" :> 84) @@
    ("a" :> 97) @@ ("b" :> 98) @@ ("f" :> 102) @@ ("n" :> 110) @@ ("p" :> 112) @@
    ("q" :> 113) @@ ("s" :> 115) @@ ("x" :> 120) @@ (":" :> 58) @@ ("-" :> 45) @@
    ("0" :> 48) @@ ("1" :> 49) @@ ("2" :> 50) @@ ("3" :> 51) @@ ("4" :> 52) @@
    ("5" :> 53) @@ ("6" :> 54) @@ ("7" :> 55) @@ ("8" :> 56) @@ ("9" :> 57)

\* QString::toLatin1
toLatin1(str) == [i \in 1..Len(str) |-> Latin1[str[i]]]

\* QByteArray::number, in base 10
RECURSIVE digits(_)
digits(n) == IF n < 10 THEN <<48 + n>> ELSE Append(digits(n \div 10), 48 + (n % 10))
number(n) == IF n < 0 THEN <<45>> \o digits(0 - n) ELSE digits(n)

\* QString::lastIndexOf("::"), counted from 0, and -1 if there is none
lastIndexOf(str) ==
    LET found == {pos \in 0..(Len(str) - 2) : str[pos + 1] = ":" /\ str[pos + 2] = ":"}
    IN  IF found = {} THEN -1 ELSE CHOOSE pos \in found : \A other \in found : other <= pos

\* QString::mid(pos)
mid(str, pos) == SubSeq(str, pos + 1, Len(str))

\* the bytes of an int or of an enumeration in memory (sizeof = 4, low byte first)
raw(n) == <<n % 256, (n \div 256) % 256, (n \div 65536) % 256, (n \div 16777216) % 256>>

\* the bytes of a sequence of byte arrays, one after the other
RECURSIVE joined(_)
joined(arrays) == IF arrays = <<>> THEN <<>> ELSE Head(arrays) \o joined(Tail(arrays))

\* ASTProperty::Modifier and ASTDeclaration::VariableTypes
Modifier ==
    [Constant |-> 0, ReadOnly |-> 1, ReadPush |-> 2, ReadWrite |-> 3, SourceOnlySetter |-> 4]
VariableTypes == [None |-> 0, Constant |-> 1, Reference |-> 2]

ASTEnumParam(name, value) == [name |-> name, value |-> value]
ASTProperty(type, name, modifier) == [type |-> type, name |-> name, modifier |-> modifier]
ASTDeclaration(type, name, variableType) ==
    [type |-> type, name |-> name, variableType |-> variableType]
ASTFunction(returnType, name, params) ==
    [returnType |-> returnType, name |-> name, params |-> params]
PODAttribute(type, name) == [type |-> type, name |-> name]
POD(name, attributes) == [name |-> name, attributes |-> attributes]

\* QCryptographicHash(Sha1) over the data added and toHex of its result: two
\* signatures are equal exactly if the same bytes were added (no collisions)
Sha1(added) == [sha1 |-> added]
toHex(result) == [hex |-> result.sha1]

\* no type is special
NoTypes == [name \in {} |-> <<>>]

\* QHash::operator[]= on a table of special types
inserted(types, name, bytes) ==
    [n \in DOMAIN types \cup {name} |-> IF n = name THEN bytes ELSE types[n]]

enumSignature(e) ==
    toLatin1(e.name)
        \o joined([i \in 1..Len(e.params) |->
                      toLatin1(e.params[i].name) \o number(e.params[i].value)])

RECURSIVE typeData(_, _)
typeData(type, specialTypes) ==
    IF type \in DOMAIN specialTypes THEN specialTypes[type]
    ELSE IF lastIndexOf(type) > 0 THEN typeData(mid(type, lastIndexOf(type) + 2), specialTypes)
    ELSE toLatin1(type)

functionsData(functions, specialTypes) ==
    joined([i \in 1..Len(functions) |->
        LET func == functions[i]
        IN  toLatin1(func.name)
              \o joined([j \in 1..Len(func.params) |->
                    toLatin1(func.params[j].name)
                      \o typeData(func.params[j].type, specialTypes)
                      \o raw(func.params[j].variableType)])
              \o typeData(func.returnType, specialTypes)])

\* the special types of classSignature: the enumerations of the class are
\* added to the global ones, and replace a global type of the same name
RECURSIVE withEnums(_, _)
withEnums(types, enums) ==
    IF enums = <<>> THEN types
    ELSE withEnums(inserted(types, Head(enums).name, enumSignature(Head(enums))), Tail(enums))

\* the bytes that classSignature adds to the checksum
checksumData(ac, globalEnumsPODs) ==
    LET localTypes == withEnums(globalEnumsPODs, ac.enums)
    IN  toLatin1(ac.name)
          \o joined([i \in 1..Len(ac.properties) |->
                toLatin1(ac.properties[i].name)
                  \o typeData(ac.properties[i].type, localTypes)
                  \o raw(ac.properties[i].modifier)])
          \o functionsData(ac.signalsList, localTypes)
          \o functionsData(ac.slotsList, localTypes)

\* a classSignature that looks the types up in the global table only
classSignature_Global(ac, globalEnumsPODs) ==
    toHex(Sha1(checksumData([ac EXCEPT !.enums = <<>>], globalEnumsPODs)))

classSignature(ac, globalEnumsPODs) == toHex(Sha1(checksumData(ac, globalEnumsPODs)))

\* ASTEnum, with isSigned and max as the parser sets them: an enumeration is
\* signed if one of its values is negative, and max is the largest magnitude
magnitude(n) == IF n < 0 THEN 0 - n ELSE n
ASTEnum(name, params) ==
    [name |-> name, params |-> params,
     isSigned |-> \E i \in 1..Len(params) : params[i].value < 0,
     max |-> IF params = <<>> THEN 0
             ELSE LET sizes == {magnitude(params[i].value) : i \in 1..Len(params)}
                  IN  CHOOSE m \in sizes : \A n \in sizes : n <= m]

ASTClass(name, properties, signalsList, slotsList, enums, hasPersisted) ==
    [name |-> name, properties |-> properties, signalsList |-> signalsList,
     slotsList |-> slotsList, enums |-> enums, hasPersisted |-> hasPersisted]

AST(classes, pods, enums) == [classes |-> classes, pods |-> pods, enums |-> enums]

\* the interface descriptions that are generated: class A declares an
\* enumeration E and uses it; class B uses the E of class A, a POD and a
\* global enumeration; a POD and a global enumeration may be called E as well
EnumE == ASTEnum(<<"E">>, <<ASTEnumParam(<<"a">>, 0), ASTEnumParam(<<"b">>, 1)>>)
EnumG == ASTEnum(<<"G">>, <<ASTEnumParam(<<"a">>, 2)>>)
GlobalE == ASTEnum(<<"E">>, <<ASTEnumParam(<<"x">>, 7)>>)
PodP == POD(<<"P">>, <<PODAttribute(<<"T">>, <<"n">>)>>)
PodE == POD(<<"E">>, <<PODAttribute(<<"G">>, <<"n">>)>>)
ClassA(hasPersisted) ==
    ASTClass(<<"A">>,
             <<ASTProperty(<<"E">>, <<"p">>, Modifier.ReadWrite)>>,
             <<ASTFunction(<<"T">>, <<"s">>,
                           <<ASTDeclaration(<<"A", ":", ":", "E">>, <<"x">>, VariableTypes.None)>>)>>,
             <<>>, <<EnumE>>, hasPersisted)
ClassB(type) ==
    ASTClass(<<"B">>,
             <<ASTProperty(type, <<"q">>, Modifier.ReadOnly)>>,
             <<>>,
             <<ASTFunction(<<"P">>, <<"f">>,
                           <<ASTDeclaration(<<"G">>, <<"x">>, VariableTypes.Reference)>>)>>,
             <<>>, FALSE)
Descriptions ==
    {AST(classes, pods, enums) :
        classes \in UNION {{<<ClassA(persisted)>>, <<ClassB(type)>>,
                            <<ClassA(persisted), ClassB(type)>>,
                            <<ClassB(type), ClassA(persisted)>>} :
                               persisted \in BOOLEAN,
                               type \in {<<"E">>, <<"A", ":", ":", "E">>, <<"T">>}},
        pods \in {<<>>, <<PodP>>, <<PodE, PodP>>},
        enums \in {<<>>, <<EnumG>>, <<GlobalE>>}}

Modes == {"REPLICA", "SOURCE", "MERGED"}

\* what generate() calls, in this order: generateENUM and generatePOD for
\* every enumeration and POD, then generateClass and generateSourceAPI
perClass(m, i) ==
    IF m = "MERGED"
    THEN <<[call |-> "generateClass", mode |-> "REPLICA", index |-> i],
           [call |-> "generateClass", mode |-> "SOURCE", index |-> i],
           [call |-> "generateClass", mode |-> "SIMPLE_SOURCE", index |-> i],
           [call |-> "generateSourceAPI", mode |-> "SOURCE", index |-> i]>>
    ELSE IF m = "SOURCE"
    THEN <<[call |-> "generateClass", mode |-> "SOURCE", index |-> i],
           [call |-> "generateClass", mode |-> "SIMPLE_SOURCE", index |-> i],
           [call |-> "generateSourceAPI", mode |-> "SOURCE", index |-> i]>>
    ELSE <<[call |-> "generateClass", mode |-> "REPLICA", index |-> i]>>
generate(a, m) ==
    [i \in 1..Len(a.enums) |-> [call |-> "generateENUM", mode |-> m, index |-> i]]
      \o [i \in 1..Len(a.pods) |-> [call |-> "generatePOD", mode |-> m, index |-> i]]
      \o joined([i \in 1..Len(a.classes) |-> perClass(m, i)])

\* generate() has not been called, and the call that is next when it has
NotGenerating == [pc |-> 0, done |-> {}]
next == generate(ast, mode)[generating.pc]
Running(function) ==
    /\ generating.pc \in 1..Len(generate(ast, mode))
    /\ next.call = function
Advance == generating' = [generating EXCEPT !.pc = @ + 1]

\* a signature that the generator wrote into the file of this run
Written(class, part, signature) ==
    [file |-> mode, class |-> class, part |-> part, signature |-> signature]

\* the generator is not used
GeneratorUnused ==
    /\ ast = AST(<<>>, <<>>, <<>>)
    /\ mode = "REPLICA"
    /\ m_globalEnumsPODs = NoTypes
    /\ out = <<>>
    /\ generating = NotGenerating

\* generateENUM: generateENUMs declares the enumeration in a class of its own
generateENUM ==
    /\ Running("generateENUM")
    /\ LET en == ast.enums[next.index]
       IN  /\ m_globalEnumsPODs' = inserted(m_globalEnumsPODs, en.name, enumSignature(en))
           /\ UNCHANGED persistedStore
           /\ op' = Step("generateENUM", en.name, enumSignature(en))
    /\ Advance
    /\ UNCHANGED <<ast, mode, out, registryVars, replicaVars, connectionVars, modelVars>>

\* the bytes generatePOD records for a POD
podData(pod, globalEnumsPODs) ==
    toLatin1(pod.name)
        \o joined([i \in 1..Len(pod.attributes) |->
                      toLatin1(pod.attributes[i].name)
                        \o typeData(pod.attributes[i].type, globalEnumsPODs)])

generatePOD ==
    /\ Running("generatePOD")
    /\ LET pod == ast.pods[next.index]
       IN  /\ m_globalEnumsPODs' =
                  inserted(m_globalEnumsPODs, pod.name, podData(pod, m_globalEnumsPODs))
           /\ UNCHANGED persistedStore
           /\ op' = Step("generatePOD", pod.name, podData(pod, m_globalEnumsPODs))
    /\ Advance
    /\ UNCHANGED <<ast, mode, out, registryVars, replicaVars, connectionVars, modelVars>>

\* the name of the class that generateClass writes
className(astClass, m) ==
    IF m = "REPLICA" THEN "Replica" ELSE IF m = "SOURCE" THEN "Source" ELSE "SimpleSource"

\* generateClass: the signature goes into the Q_CLASSINFO of the class before
\* its enumerations are declared; the Replica of a class with persisted
\* properties gets it twice more, for retrieveProperties and persistProperties
generateClass ==
    /\ Running("generateClass")
    /\ LET astClass == ast.classes[next.index]
           declared == IF next.mode # "SIMPLE_SOURCE"
                       THEN withEnums(m_globalEnumsPODs, astClass.enums)
                       ELSE m_globalEnumsPODs
           classInfo == IF next.mode # "SIMPLE_SOURCE"
                        THEN <<Written(astClass.name, className(astClass, next.mode),
                                       classSignature(astClass, m_globalEnumsPODs))>>
                        ELSE <<>>
           persisted == IF next.mode = "REPLICA" /\ astClass.hasPersisted
                        THEN <<Written(astClass.name, "retrieveProperties",
                                       classSignature(astClass, declared)),
                               Written(astClass.name, "persistProperties",
                                       classSignature(astClass, declared))>>
                        ELSE <<>>
       IN  /\ m_globalEnumsPODs' = declared
           /\ out' = out \o classInfo \o persisted
           /\ UNCHANGED persistedStore
           /\ op' = Step("generateClass", <<astClass.name, next.mode>>, classInfo \o persisted)
    /\ Advance
    /\ UNCHANGED <<ast, mode, registryVars, replicaVars, connectionVars, modelVars>>

\* generateSourceAPI: the enumerations of the class are declared first, and
\* objectSignature() returns the signature
generateSourceAPI ==
    /\ Running("generateSourceAPI")
    /\ LET astClass == ast.classes[next.index]
           declared == withEnums(m_globalEnumsPODs, astClass.enums)
           objectSignature == Written(astClass.name, "SourceAPI",
                                      classSignature(astClass, declared))
       IN  /\ m_globalEnumsPODs' = declared
           /\ out' = Append(out, objectSignature)
           /\ UNCHANGED persistedStore
           /\ op' = Step("generateSourceAPI", astClass.name, <<objectSignature>>)
    /\ Advance
    /\ UNCHANGED <<ast, mode, registryVars, replicaVars, connectionVars, modelVars>>

\* repc is run once more on the same interface description, in a mode it has
\* not generated yet: a new RepCodeGenerator writes another file
Rerun(m) ==
    /\ generating.pc > Len(generate(ast, mode))
    /\ m \notin generating.done \cup {mode}
    /\ mode' = m
    /\ m_globalEnumsPODs' = NoTypes
    /\ generating' = [pc |-> 1, done |-> generating.done \cup {mode}]
    /\ UNCHANGED persistedStore
    /\ op' = Step("repc", m, <<>>)
    /\ UNCHANGED <<ast, out, registryVars, replicaVars, connectionVars, modelVars>>

(* --------------------------- specification ----------------------------- *)

\* the registry replica after construction
RegistryInit ==
    /\ state = "Uninitialized"
    /\ hostedSources = EmptyLocations
    /\ sourceLocations = EmptyLocations
    /\ toRegistry = <<>>
    /\ toNode = <<>>
    /\ regTable = EmptyLocations
    /\ reconnected = FALSE
    /\ push = Idle
    /\ sent = <<>>
    /\ warned = {}
    /\ emitted = <<>>
    /\ announced = {}

\* a Replica that nobody has acquired yet
ReplicaUnused ==
    /\ persistedStore = <<>>
    /\ replica = NewReplica
    /\ source = NewSource(ExpectedSignature)
    /\ link = NoLink

\* a connection that carries nothing
ConnectionUnused == connection = NewConnection

\* no model is enabled for remoting
ModelUnused ==
    /\ sourceModel = EmptyModel
    /\ model = NoReplica
    /\ modelLink = NoModelLink
    /\ spy = NoSignals

Init ==
    /\ RegistryInit
    /\ GeneratorUnused
    /\ sourceSignature \in {ExpectedSignature, OtherSignature}
    /\ op = Op("Init", "", "")
    /\ ReplicaUnused
    /\ ConnectionUnused
    /\ ModelUnused

Next ==
    \/ \E name \in Names, url \in LocalUrls : addSource(name, url)
    \/ \E name \in Names, url \in LocalUrls : removeSource(name, url)
    \/ Acquire
    \/ LinkLoss
    \/ Reconnect
    \/ ReceiveInit
    \/ ReceiveSignal
    \/ RegistryAddSource
    \/ RegistryRemoveSource
    \/ \E name \in Names, url \in RemoteUrls : RemoteAddSource(name, url)
    \/ \E name \in Names, url \in RemoteUrls : RemoteRemoveSource(name, url)

Spec == Init /\ [][Next]_vars

\* two nodes register sources, connect and reconnect; no source is removed
NextAddOnly ==
    \/ \E name \in Names, url \in LocalUrls : addSource(name, url)
    \/ Acquire
    \/ LinkLoss
    \/ Reconnect
    \/ ReceiveInit
    \/ ReceiveSignal
    \/ RegistryAddSource
    \/ \E name \in Names, url \in RemoteUrls : RemoteAddSource(name, url)

SpecAddOnly == Init /\ [][NextAddOnly]_vars

\* the loop of pushToRegistryIfNeeded runs one iteration at a time, and updates
\* of the table may reach the replica between two iterations
NextLoop ==
    \/ push.pc = "idle" /\ \E name \in Names, url \in LocalUrls : addSource(name, url)
    \/ push.pc = "idle" /\ \E name \in Names, url \in LocalUrls : removeSource(name, url)
    \/ push.pc = "idle" /\ Acquire
    \/ push.pc = "idle" /\ LinkLoss
    \/ push.pc = "idle" /\ Reconnect
    \/ ReceiveInitEnterLoop
    \/ pushIteration
    \/ ReceiveSignal
    \/ RegistryAddSource
    \/ RegistryRemoveSource
    \/ \E name \in Names, url \in RemoteUrls : RemoteAddSource(name, url)
    \/ \E name \in Names, url \in RemoteUrls : RemoteRemoveSource(name, url)

SpecLoop == Init /\ [][NextLoop]_vars

\* a Replica is acquired from a Source of either signature; the link may be
\* lost and restored, and the caller reads, writes, calls and releases
InitReplica ==
    /\ RegistryInit
    /\ GeneratorUnused
    /\ sourceSignature = ExpectedSignature
    /\ op = Step("Init", "", "")
    /\ persistedStore = <<>>
    /\ replica = NewReplica
    /\ \E sig \in Signatures : source = NewSource(sig)
    /\ link = NoLink
    /\ ConnectionUnused
    /\ ModelUnused

NextReplica ==
    \/ ReplicaAcquire
    \/ SourceProcess
    \/ \E i \in Properties, value \in Values : SourceSet(i, value)
    \/ ReplicaReceive
    \/ ReplicaCall
    \/ \E i \in Properties, value \in Values : ReplicaWrite(i, value)
    \/ ReplicaLinkLoss
    \/ ReplicaReconnect
    \/ ReplicaRelease

SpecReplica == InitReplica /\ [][NextReplica]_vars

\* packets of several objects are written to one connection and processed
InitConnection ==
    /\ RegistryInit
    /\ GeneratorUnused
    /\ sourceSignature = ExpectedSignature
    /\ op = Step("Init", "", "")
    /\ ReplicaUnused
    /\ connection = NewConnection
    /\ ModelUnused

NextConnection ==
    \/ \E o \in Objects : ConnectionSend(o)
    \/ \E o \in Objects : ConnectionDispatch(o)

SpecConnection == InitConnection /\ [][NextConnection]_vars

\* a model (empty, flat or a tree) is enabled for remoting; a replica of it is
\* acquired and read while the source model is changed
InitModel ==
    /\ RegistryInit
    /\ GeneratorUnused
    /\ sourceSignature = ExpectedSignature
    /\ op = Step("Init", "", "")
    /\ ReplicaUnused
    /\ ConnectionUnused
    /\ sourceModel \in {EmptyModel, FlatModel, TreeModel}
    /\ model = NoReplica
    /\ modelLink = NoModelLink
    /\ spy = NoSignals

NextModel ==
    \/ ModelAcquire
    \/ \E parent \in 0..MaxNodes, row \in 1..MaxNodes, role \in Roles : ModelFetch(parent, row, role)
    \/ SourceReply
    \/ ModelReceive
    \/ \E node \in 1..MaxNodes, role \in Roles, value \in Values : SourceSetData(node, role, value)
    \/ \E parent \in 0..MaxNodes, first \in 1..MaxNodes, count \in 1..2 :
           SourceInsertRows(parent, first, count)
    \/ \E parent \in 0..MaxNodes, first \in 1..MaxNodes, count \in 1..2 :
           SourceRemoveRows(parent, first, count)

SpecModel == InitModel /\ [][NextModel]_vars

\* rows are inserted and removed while the replica is read and changed in the
\* display role: testDataInsertion, testDataInsertionTree and testDataRemoval
NextModelRows ==
    \/ ModelAcquire
    \/ \E parent \in 0..MaxNodes, row \in 1..MaxNodes : ModelFetch(parent, row, "display")
    \/ SourceReply
    \/ ModelReceive
    \/ \E node \in 1..MaxNodes, value \in Values : SourceSetData(node, "display", value)
    \/ \E parent \in 0..MaxNodes, first \in 1..MaxNodes, count \in 1..2 :
           SourceInsertRows(parent, first, count)
    \/ \E parent \in 0..MaxNodes, first \in 1..MaxNodes, count \in 1..2 :
           SourceRemoveRows(parent, first, count)

SpecModelRows == InitModel /\ [][NextModelRows]_vars

\* the event loop of the client runs: a packet that has arrived at the replica
\* is processed
SpecModelRowsFair == SpecModelRows /\ WF_vars(ModelReceive)

\* the same replica while the source model keeps its rows: testInitialData,
\* testDataChanged and testDataChangedTree
NextModelData ==
    \/ ModelAcquire
    \/ \E parent \in 0..MaxNodes, row \in 1..MaxNodes, role \in Roles : ModelFetch(parent, row, role)
    \/ SourceReply
    \/ ModelReceive
    \/ \E node \in 1..MaxNodes, role \in Roles, value \in Values : SourceSetData(node, role, value)

SpecModelData == InitModel /\ [][NextModelData]_vars

\* the replica with unchanged rows, its event loop running
SpecModelDataFair == SpecModelData /\ WF_vars(ModelReceive)

\* the model with the rows 0..9 is remoted; rows are removed and inserted at
\* its top level while the replica follows
InitEdits ==
    /\ RegistryInit
    /\ GeneratorUnused
    /\ sourceSignature = ExpectedSignature
    /\ op = Step("Init", "", "")
    /\ ReplicaUnused
    /\ ConnectionUnused
    /\ sourceModel = RowsModel
    /\ model = NoReplica
    /\ modelLink = NoModelLink
    /\ spy = NoSignals

NextEdits ==
    \/ ModelAcquire
    \/ ModelReceive
    \/ \E first \in 0..ModelRows, count \in 1..3 : EditRemoveRows(first, count)
    \/ \E first \in 0..ModelRows, count \in 1..2 : EditInsertRows(first, count)

SpecEdits == InitEdits /\ [][NextEdits]_vars

\* the replica is read, then rows are inserted and removed in the source
\* model while requests of the replica are outstanding
NextPending ==
    \/ ModelAcquire
    \/ \E parent \in 0..MaxNodes, row \in 1..MaxNodes, role \in Roles : FetchEarly(parent, row, role)
    \/ SourceReply
    \/ ModelReceive
    \/ \E parent \in 0..MaxNodes, first \in 1..MaxNodes, count \in 1..2 :
           SourceInsertRows(parent, first, count)
    \/ \E parent \in 0..MaxNodes, first \in 1..MaxNodes, count \in 1..2 :
           SourceRemoveRows(parent, first, count)

SpecPending == InitModel /\ [][NextPending]_vars

\* a replica is read and written with setData: testSetData and testSetDataTree
NextSetData ==
    \/ ModelAcquire
    \/ \E parent \in 0..MaxNodes, row \in 1..MaxNodes, role \in Roles : ModelFetch(parent, row, role)
    \/ SourceReply
    \/ ModelReceive
    \/ \E parent \in 0..MaxNodes, row \in 1..MaxNodes, value \in Values :
           ReplicaSetData(parent, row, "display", value)
    \/ SourceWrite

SpecSetData == InitModel /\ [][NextSetData]_vars

\* the event loops of the host and of the client run: a packet that has
\* arrived is processed
SpecSetDataFair == SpecSetData /\ WF_vars(SourceReply \/ SourceWrite) /\ WF_vars(ModelReceive)

\* a replica with a configured cache size is read while the source model is
\* changed
NextCache ==
    \/ \E size \in 1..MaxCacheSize : CacheAcquire(size)
    \/ \E parent \in 0..MaxNodes, row \in 1..MaxNodes, role \in Roles : ModelFetch(parent, row, role)
    \/ SourceReply
    \/ CacheReceive
    \/ \E node \in 1..MaxNodes, role \in Roles, value \in Values : SourceSetData(node, role, value)

SpecCache == InitModel /\ [][NextCache]_vars

\* a list model (without or with rows) is remoted and acquired with an
\* initial action; after initialized the replica is read and the source
\* model is changed
InitPrefetch ==
    /\ RegistryInit
    /\ GeneratorUnused
    /\ sourceSignature = ExpectedSignature
    /\ op = Step("Init", "", "")
    /\ ReplicaUnused
    /\ ConnectionUnused
    /\ sourceModel \in {EmptyModel, FlatModel}
    /\ model = NoReplica
    /\ modelLink = NoModelLink
    /\ spy = NoSignals

NextPrefetch ==
    \/ \E action \in InitialActions : AcquireModel(action)
    \/ SourceInit
    \/ SizeReceive
    \/ PrefetchReceive
    \/ SourceReply
    \/ \E parent \in 0..MaxNodes, row \in 1..MaxNodes, role \in Roles : ModelFetch(parent, row, role)
    \/ ModelReceive
    \/ \E node \in 1..MaxNodes, role \in Roles, value \in Values : SourceSetData(node, role, value)

SpecPrefetch == InitPrefetch /\ [][NextPrefetch]_vars

\* two descriptions of one class that differ in one type name only: the type
\* of the property, of the parameter of the signal, or the return type of the slot
Positions == {"property", "parameter", "return"}
TypeNames ==
    {<<"T">>, <<"G">>, <<"P">>, <<"E">>, <<"A", ":", ":", "E">>,
     <<"a", ":", ":", "T">>, <<"b", ":", ":", "T">>, <<":", ":", "T">>}
ClassT(position, type) ==
    ASTClass(<<"A">>,
             <<ASTProperty(IF position = "property" THEN type ELSE <<"T">>,
                           <<"p">>, Modifier.ReadWrite)>>,
             <<ASTFunction(<<"T">>, <<"s">>,
                           <<ASTDeclaration(IF position = "parameter" THEN type ELSE <<"T">>,
                                            <<"x">>, VariableTypes.None)>>)>>,
             <<ASTFunction(IF position = "return" THEN type ELSE <<"T">>, <<"f">>, <<>>)>>,
             <<EnumE>>, FALSE)

\* the table of the generator before the first class, without and with a
\* global enumeration and a POD
GlobalTypes ==
    {NoTypes,
     inserted(inserted(NoTypes, EnumG.name, enumSignature(EnumG)),
              PodP.name, podData(PodP, NoTypes))}

\* classSignature is called for one of the two descriptions
ComputeSignature(i) ==
    /\ i \in 1..Len(ast.classes)
    /\ \A k \in 1..Len(out) : out[k].description # i
    /\ out' = Append(out, [description |-> i,
                           added |-> checksumData(ast.classes[i], m_globalEnumsPODs),
                           signature |-> classSignature(ast.classes[i], m_globalEnumsPODs)])
    /\ UNCHANGED persistedStore
    /\ op' = Step("classSignature", i, classSignature(ast.classes[i], m_globalEnumsPODs))
    /\ UNCHANGED <<ast, mode, m_globalEnumsPODs, generating,
                   registryVars, replicaVars, connectionVars, modelVars>>

(* ------------------- repc: the generated SourceAPI --------------------- *)

\* the largest signal index that propertyIndexFromSignal is asked for
MaxSignalIndex == 3

\* the classes a SourceAPI is generated for: up to two properties with any
\* modifier, and one signal of its own or none
PropertyNames == <<(<<"p">>), (<<"q">>)>>
Modifiers == {Modifier[m] : m \in DOMAIN Modifier}
ApiClasses ==
    {ASTClass(<<"A">>,
              [i \in 1..n |-> ASTProperty(<<"T">>, PropertyNames[i], modifiers[i])],
              signalsList, <<>>, <<>>, FALSE) :
        n \in 0..2, modifiers \in [1..2 -> Modifiers],
        signalsList \in {<<>>, <<ASTFunction(<<"T">>, <<"s">>, <<>>)>>}}

\* the ObjectType a SourceAPI is instantiated with: a QObject that declares
\* the properties of the class in an order of its own, after the properties
\* of its base classes
orders(names) ==
    {order \in [1..Len(names) -> 1..Len(names)] :
        \A i, j \in 1..Len(names) : order[i] = order[j] => i = j}
ObjectTypes(astClass) ==
    {[propertyOffset |-> offset,
      properties |-> [i \in 1..Len(astClass.properties) |-> astClass.properties[order[i]].name]] :
        offset \in {1, 2}, order \in orders(astClass.properties)}

\* QMetaObject::indexOfProperty of the ObjectType, which qtro_property_index returns
indexOfProperty(object, name) ==
    LET i == CHOOSE i \in 1..Len(object.properties) : object.properties[i] = name
    IN  object.propertyOffset + i - 1

\* propertyChangeIndex of generateSourceAPI: the indices into m_properties of
\* the properties that have a change signal, which are all but the constant ones
RECURSIVE changeIndex(_, _, _)
changeIndex(astClass, i, first) ==
    IF i > Len(astClass.properties) THEN <<>>
    ELSE IF astClass.properties[i].modifier # Modifier.Constant
    THEN <<i - 1 + first>> \o changeIndex(astClass, i + 1, first)
    ELSE changeIndex(astClass, i + 1, first)

\* the index of the property itself, where m_properties has the count
propertyChangeIndex_FromZero(astClass) == changeIndex(astClass, 1, 0)

propertyChangeIndex(astClass) == changeIndex(astClass, 1, 1)

\* m_properties of the SourceAPI: the count, then the source property indices
m_properties(astClass, object) ==
    [k \in 0..Len(astClass.properties) |->
        IF k = 0 THEN Len(astClass.properties)
        ELSE indexOfProperty(object, astClass.properties[k].name)]

\* the signals that m_signals[1..] are filled with: the change signal of every
\* property in onChangeProperties, then the signals of the class
Changed == <<"C", "h", "a", "n", "g", "e", "d">>
onChangeProperties(astClass) ==
    SelectSeq(astClass.properties, LAMBDA prop : prop.modifier # Modifier.Constant)
m_signals(astClass) ==
    [i \in 1..Len(onChangeProperties(astClass)) |->
        [name |-> onChangeProperties(astClass)[i].name \o Changed,
         notifies |-> onChangeProperties(astClass)[i].name]]
      \o [i \in 1..Len(astClass.signalsList) |->
            [name |-> astClass.signalsList[i].name, notifies |-> <<>>]]

\* the generated propertyIndexFromSignal and propertyRawIndexFromSignal
propertyIndexFromSignal(astClass, object, signalIndex) ==
    IF signalIndex \in 0..(Len(propertyChangeIndex(astClass)) - 1)
    THEN m_properties(astClass, object)[propertyChangeIndex(astClass)[signalIndex + 1]]
    ELSE -1
propertyRawIndexFromSignal(astClass, signalIndex) ==
    IF signalIndex \in 0..(Len(propertyChangeIndex(astClass)) - 1)
    THEN propertyChangeIndex(astClass)[signalIndex + 1] - 1
    ELSE -1

\* the source asks its SourceAPI for the property of a signal
PropertyIndexFromSignal(signalIndex) ==
    /\ UNCHANGED persistedStore
    /\ op' = Step("propertyIndexFromSignal", signalIndex,
                  propertyIndexFromSignal(ast.classes[1], source, signalIndex))
    /\ UNCHANGED <<replicaVars, registryVars, generatorVars, connectionVars, modelVars>>
PropertyRawIndexFromSignal(signalIndex) ==
    /\ UNCHANGED persistedStore
    /\ op' = Step("propertyRawIndexFromSignal", signalIndex,
                  propertyRawIndexFromSignal(ast.classes[1], signalIndex))
    /\ UNCHANGED <<replicaVars, registryVars, generatorVars, connectionVars, modelVars>>

(* --------------- repc: the stream operators of enumerations ------------ *)

\* the values of the enumerators that are streamed: those around the limits
\* of the integer types, up to the largest and down to the smallest int but one
EnumValues ==
    {-2147483647, -65536, -32769, -32768, -32767, -32766, -256, -129, -128, -127, -126, -1,
     0, 1, 126, 127, 128, 254, 255, 256, 32766, 32767, 32768, 65534, 65535, 65536, 2147483647}

\* the enumerations: one or two enumerators with different values
StreamedEnums ==
    {ASTEnum(<<"E">>, <<ASTEnumParam(<<"a">>, v)>>) : v \in EnumValues}
      \cup UNION {{ASTEnum(<<"E">>, <<ASTEnumParam(<<"a">>, v), ASTEnumParam(<<"b">>, w)>>) :
                       w \in EnumValues \ {v}} : v \in EnumValues}

\* a getEnumType that takes the limits of the unsigned types for the signed ones
getEnumType_UnsignedLimits(en) ==
    IF en.isSigned
    THEN IF en.max < 255 THEN "qint8" ELSE IF en.max < 65535 THEN "qint16" ELSE "qint32"
    ELSE IF en.max < 255 THEN "quint8" ELSE IF en.max < 65535 THEN "quint16" ELSE "quint32"

getEnumType(en) ==
    IF en.isSigned
    THEN IF en.max < 127 THEN "qint8" ELSE IF en.max < 32767 THEN "qint16" ELSE "qint32"
    ELSE IF en.max < 255 THEN "quint8" ELSE IF en.max < 65535 THEN "quint16" ELSE "quint32"

\* the integer types: the number of their bytes, and whether they are signed
sizeof(type) == IF type \in {"qint8", "quint8"} THEN 1
                ELSE IF type \in {"qint16", "quint16"} THEN 2 ELSE 4
isSignedType(type) == type \in {"qint8", "qint16", "qint32"}

\* the bytes of a number below 2^(8 * size), the most significant first, and back
RECURSIVE bigEndian(_, _)
bigEndian(n, size) ==
    IF size = 0 THEN <<>> ELSE Append(bigEndian(n \div 256, size - 1), n % 256)
RECURSIVE fromBigEndian(_)
fromBigEndian(bytes) ==
    IF bytes = <<>> THEN 0
    ELSE 256 * fromBigEndian(SubSeq(bytes, 1, Len(bytes) - 1)) + bytes[Len(bytes)]

\* "type val = obj; ds << val;": the value of the enumerator is converted to
\* the integer type (modulo 2^n, in two's complement) and QDataStream writes
\* the bytes of that integer, the most significant first
streamed(type, value) ==
    IF sizeof(type) = 1 THEN bigEndian(value % 256, 1)
    ELSE IF sizeof(type) = 2 THEN bigEndian(value % 65536, 2)
    ELSE IF value >= 0 THEN bigEndian(value, 4)
    ELSE LET low == bigEndian(value + 2147483647 + 1, 4)
         IN  [low EXCEPT ![1] = @ + 128]

\* "type val; ds >> val;": the integer that the bytes of the stream are; a
\* quint32 from 2^31 on is no value of an int, and of no enumerator
beyondInt(type, bytes) == type = "quint32" /\ bytes[1] >= 128
val(type, bytes) ==
    IF sizeof(type) = 4 /\ bytes[1] >= 128
    THEN fromBigEndian([bytes EXCEPT ![1] = @ - 128]) - 2147483647 - 1
    ELSE IF isSignedType(type) /\ bytes[1] >= 128
    THEN fromBigEndian(bytes) - (IF sizeof(type) = 1 THEN 256 ELSE 65536)
    ELSE fromBigEndian(bytes)

\* a conversion that casts an integer without an enumerator to the enumeration
toEnum_Cast(en, type, bytes) ==
    IF ~beyondInt(type, bytes)
          /\ \E k \in 1..Len(en.params) : en.params[k].value = val(type, bytes)
    THEN [obj |-> val(type, bytes), ok |-> TRUE]
    ELSE [obj |-> val(type, bytes), ok |-> FALSE]

\* the generated conversion function to<Enum>(i, &ok): the switch over the
\* values of the enumerators, and the first enumerator with ok = false otherwise
toEnum(en, type, bytes) ==
    IF ~beyondInt(type, bytes)
          /\ \E k \in 1..Len(en.params) : en.params[k].value = val(type, bytes)
    THEN [obj |-> val(type, bytes), ok |-> TRUE]
    ELSE [obj |-> en.params[1].value, ok |-> FALSE]

\* operator<< of the enumeration writes one of its enumerators to the stream
StreamOut(k) ==
    /\ out = <<>>
    /\ k \in 1..Len(ast.enums[1].params)
    /\ out' = streamed(getEnumType(ast.enums[1]), ast.enums[1].params[k].value)
    /\ UNCHANGED persistedStore
    /\ op' = Step("operator<<", ast.enums[1].params[k].value, getEnumType(ast.enums[1]))
    /\ UNCHANGED <<ast, mode, m_globalEnumsPODs, generating,
                   registryVars, replicaVars, connectionVars, modelVars>>

\* operator>> of the enumeration reads the integer at the head of the stream
\* and converts it; the status of the stream is left as it is, and what
\* follows the integer is there for the next read
StreamIn ==
    LET size == sizeof(getEnumType(ast.enums[1])) IN
    /\ Len(out) >= size
    /\ out' = SubSeq(out, size + 1, Len(out))
    /\ UNCHANGED persistedStore
    /\ op' = Step("operator>>", SubSeq(out, 1, size),
                  toEnum(ast.enums[1], getEnumType(ast.enums[1]), SubSeq(out, 1, size)))
    /\ UNCHANGED <<ast, mode, m_globalEnumsPODs, generating,
                   registryVars, replicaVars, connectionVars, modelVars>>

\* the number of integers the peer has written that are not yet read
MaxUnread == 2

\* the integers a peer writes, and the enumerations they are read as
PeerValues == {-129, -1, 0, 1, 2, 255, 256, 65535}
DecodedValues == {-1, 0, 1, 255, 65535}
DecodedEnums ==
    {ASTEnum(<<"E">>, <<ASTEnumParam(<<"a">>, v)>>) : v \in DecodedValues}
      \cup UNION {{ASTEnum(<<"E">>, <<ASTEnumParam(<<"a">>, v), ASTEnumParam(<<"b">>, w)>>) :
                       w \in DecodedValues \ {v}} : v \in DecodedValues}

\* a peer writes an integer of the type of the enumeration to the stream,
\* whether it is the value of an enumerator or not
PeerWrites(value) ==
    /\ Len(out) < MaxUnread * sizeof(getEnumType(ast.enums[1]))
    /\ out' = out \o streamed(getEnumType(ast.enums[1]), value)
    /\ UNCHANGED persistedStore
    /\ op' = Step("PeerWrites", value, getEnumType(ast.enums[1]))
    /\ UNCHANGED <<ast, mode, m_globalEnumsPODs, generating,
                   registryVars, replicaVars, connectionVars, modelVars>>

\* repc generates the files of an interface description, one mode after the other
InitGenerate ==
    /\ RegistryInit
    /\ sourceSignature = ExpectedSignature
    /\ op = Step("Init", "", "")
    /\ ReplicaUnused
    /\ ConnectionUnused
    /\ ModelUnused
    /\ ast \in Descriptions
    /\ mode \in Modes
    /\ m_globalEnumsPODs = NoTypes
    /\ out = <<>>
    /\ generating = [pc |-> 1, done |-> {}]

NextGenerate ==
    \/ generateENUM
    \/ generatePOD
    \/ generateClass
    \/ generateSourceAPI
    \/ \E m \in Modes : Rerun(m)

SpecGenerate == InitGenerate /\ [][NextGenerate]_vars

\* the signatures of two descriptions that differ in one type name
InitSignature ==
    /\ RegistryInit
    /\ sourceSignature = ExpectedSignature
    /\ op = Step("Init", "", "")
    /\ ReplicaUnused
    /\ ConnectionUnused
    /\ ModelUnused
    /\ \E position \in Positions, first \in TypeNames, second \in TypeNames :
          /\ first # second
          /\ ast = AST(<<ClassT(position, first), ClassT(position, second)>>, <<>>, <<>>)
    /\ mode = "REPLICA"
    /\ m_globalEnumsPODs \in GlobalTypes
    /\ out = <<>>
    /\ generating = NotGenerating

NextSignature == \E i \in {1, 2} : ComputeSignature(i)

SpecSignature == InitSignature /\ [][NextSignature]_vars

\* a SourceAPI generated for a class and instantiated with an object type is
\* asked for the properties of signal indices
InitSourceAPI ==
    /\ RegistryInit
    /\ sourceSignature = ExpectedSignature
    /\ op = Step("Init", "", "")
    /\ persistedStore = <<>>
    /\ replica = NewReplica
    /\ link = NoLink
    /\ ConnectionUnused
    /\ ModelUnused
    /\ \E astClass \in ApiClasses :
          /\ ast = AST(<<astClass>>, <<>>, <<>>)
          /\ source \in ObjectTypes(astClass)
    /\ mode = "SOURCE"
    /\ m_globalEnumsPODs = NoTypes
    /\ out = <<>>
    /\ generating = NotGenerating

NextSourceAPI ==
    \/ \E signalIndex \in -1..MaxSignalIndex : PropertyIndexFromSignal(signalIndex)
    \/ \E signalIndex \in -1..MaxSignalIndex : PropertyRawIndexFromSignal(signalIndex)

SpecSourceAPI == InitSourceAPI /\ [][NextSourceAPI]_vars

\* the enumerators of an enumeration are written to a stream and read back
InitStream ==
    /\ RegistryInit
    /\ sourceSignature = ExpectedSignature
    /\ op = Step("Init", "", "")
    /\ ReplicaUnused
    /\ ConnectionUnused
    /\ ModelUnused
    /\ \E en \in StreamedEnums : ast = AST(<<>>, <<>>, <<en>>)
    /\ mode = "MERGED"
    /\ m_globalEnumsPODs = NoTypes
    /\ out = <<>>
    /\ generating = NotGenerating

NextStream ==
    \/ \E k \in {1, 2} : StreamOut(k)
    \/ StreamIn

SpecStream == InitStream /\ [][NextStream]_vars

\* integers of a peer are read as enumerators
InitDecode ==
    /\ RegistryInit
    /\ sourceSignature = ExpectedSignature
    /\ op = Step("Init", "", "")
    /\ ReplicaUnused
    /\ ConnectionUnused
    /\ ModelUnused
    /\ \E en \in DecodedEnums : ast = AST(<<>>, <<>>, <<en>>)
    /\ mode = "MERGED"
    /\ m_globalEnumsPODs = NoTypes
    /\ out = <<>>
    /\ generating = NotGenerating

NextDecode ==
    \/ \E value \in PeerValues : PeerWrites(value)
    \/ StreamIn

SpecDecode == InitDecode /\ [][NextDecode]_vars

\* a node registers its sources under either of two endpoints and removes
\* them, connects and reconnects; no other node uses the registry
NextHosted ==
    \/ \E name \in Names, url \in HostUrls : addSource(name, url)
    \/ \E name \in Names, url \in LocalUrls : removeSource(name, url)
    \/ Acquire
    \/ LinkLoss
    \/ Reconnect
    \/ ReceiveInit
    \/ ReceiveSignal
    \/ RegistryAddSource
    \/ RegistryRemoveSource

SpecHosted == Init /\ [][NextHosted]_vars

TypeOK ==
    /\ state \in States
    /\ announced \subseteq Names
    /\ hostedSources \in LocationMaps
    /\ sourceLocations \in LocationMaps
    /\ regTable \in LocationMaps
    /\ Len(toRegistry) <= MaxQueue
    /\ Len(toNode) <= MaxQueue
    /\ reconnected \in BOOLEAN

(* ------------- repc: the members of the generated classes -------------- *)

\* the number of packets of a generated object on each direction of its connection
MaxInFlight == 1

\* the classes whose Replica and SimpleSource are generated: a property with
\* any modifier, a property that the Replica can set or push, a slot that
\* returns nothing and a slot that returns a T
Void == <<"v", "o", "i", "d">>
GeneratedSlots == <<ASTFunction(Void, <<"f">>, <<>>), ASTFunction(<<"T">>, <<"g">>, <<>>)>>
GeneratedClasses ==
    {ASTClass(<<"A">>,
              [i \in Properties |-> ASTProperty(<<"T">>, PropertyNames[i], modifiers[i])],
              <<>>, GeneratedSlots, <<>>, FALSE) :
        modifiers \in {m \in [Properties -> Modifiers] :
                          m[2] \in {Modifier.ReadWrite, Modifier.ReadPush}}}

\* what a generated member hands to the Replica: send() or sendWithReply(),
\* the kind of the packet, the index of the property or method, the arguments
ReplicaRequest(function, type, member, args) ==
    [function |-> function, type |-> type, member |-> member, args |-> args]
PushSlot(i) == [push |-> i]
DeclaredSlot(k) == [slot |-> k]

\* mode REPLICA: the properties that get a set<Prop>, and its body
hasReplicaSetter(property) == property.modifier = Modifier.ReadWrite

\* a setter that writes the cache of the Replica as well
replicaSetter_WritesCache(r, i, value) ==
    [replica |-> [r EXCEPT !.cachedProperties[i] = value],
     requests |-> <<ReplicaRequest("send", "WriteProperty", i, <<value>>)>>]

replicaSetter(r, i, value) ==
    [replica |-> r,
     requests |-> <<ReplicaRequest("send", "WriteProperty", i, <<value>>)>>]

\* mode REPLICA: the properties that get a push<Prop> slot, and its body
hasPushSlot(property) == property.modifier = Modifier.ReadPush
replicaPush(i, value) ==
    <<ReplicaRequest("send", "InvokeMetaMethod", PushSlot(i), <<value>>)>>

\* the special case of a slot whose return type is void
isVoid(slot) == slot.returnType = Void

\* a Replica whose slots all wait for a reply
replicaSlot_AlwaysReply(astClass, k) ==
    <<ReplicaRequest("sendWithReply", "InvokeMetaMethod", DeclaredSlot(k), <<>>)>>

\* mode REPLICA: the body of a declared slot, which returns
\* QRemoteObjectPendingReply unless the slot is void
replicaSlot(astClass, k) ==
    IF isVoid(astClass.slotsList[k])
    THEN <<ReplicaRequest("send", "InvokeMetaMethod", DeclaredSlot(k), <<>>)>>
    ELSE <<ReplicaRequest("sendWithReply", "InvokeMetaMethod", DeclaredSlot(k), <<>>)>>

\* the invocation packet of section 6: serialId is -1 when no reply is awaited
InvokeMetaMethod(member, args, serialId) ==
    [type |-> "InvokeMetaMethod", member |-> member, args |-> args, serialId |-> serialId]

\* QRemoteObjectReplica::send and sendWithReply: the packet of a request, and
\* the Replica after it; only sendWithReply allocates a pending call
packetOf(r, req) ==
    IF req.type = "WriteProperty" THEN WriteProperty(req.member, req.args[1])
    ELSE InvokeMetaMethod(req.member, req.args,
                          IF req.function = "sendWithReply" THEN Len(r.calls) + 1
                          ELSE -1)
afterRequest(r, req) ==
    IF req.function = "sendWithReply" THEN call(r) ELSE r

\* a member of the generated Replica ran: its one request is serialized at
\* once by a Valid Replica and goes nowhere in any other state
Requested(kind, arg, after, requests) ==
    LET req == requests[1] IN
    /\ ~replica.released
    /\ Len(requests) = 1
    /\ req.function = "sendWithReply" => Len(replica.calls) < MaxCalls
    /\ replica.state = "Valid" => Len(link.toSource) < MaxInFlight
    /\ replica' = afterRequest(after, req)
    /\ link' = IF replica.state = "Valid"
               THEN [link EXCEPT !.toSource = Append(@, packetOf(replica, req))]
               ELSE link
    /\ UNCHANGED persistedStore
    /\ op' = Step(kind, arg,
                  [requests |-> requests,
                   handle |-> IF req.function = "sendWithReply"
                              THEN Len(replica.calls) + 1 ELSE -1])
    /\ UNCHANGED <<source, registryVars, generatorVars, connectionVars, modelVars>>

\* set<Prop>(value) of the generated Replica
ReplicaSetter(i, value) ==
    /\ hasReplicaSetter(ast.classes[1].properties[i])
    /\ LET r == replicaSetter(replica, i, value)
       IN  Requested("ReplicaSetter", [index |-> i, value |-> value], r.replica, r.requests)

\* push<Prop>(value) of the generated Replica
ReplicaPush(i, value) ==
    /\ hasPushSlot(ast.classes[1].properties[i])
    /\ Requested("ReplicaPush", [index |-> i, value |-> value], replica, replicaPush(i, value))

\* a declared slot of the generated Replica
ReplicaSlot(k) ==
    /\ k \in 1..Len(ast.classes[1].slotsList)
    /\ Requested("ReplicaSlot", k, replica, replicaSlot(ast.classes[1], k))

\* mode SIMPLE_SOURCE: the properties that get a set<Prop>; the one of a
\* ReadOnly property is protected
hasSimpleSetter(property) == property.modifier # Modifier.Constant

\* a setter that stores and notifies whatever the value is
generateSimpleSetter_Always(s, i, value) ==
    [source |-> [s EXCEPT !.properties[i] = value], emitted |-> <<PropertyChanged(i, value)>>]

\* generateSimpleSetter: the body of set<Prop> of the SimpleSource
generateSimpleSetter(s, i, value) ==
    IF value # s.properties[i]
    THEN [source |-> [s EXCEPT !.properties[i] = value], emitted |-> <<PropertyChanged(i, value)>>]
    ELSE [source |-> s, emitted |-> <<>>]

\* mode SOURCE: push<Prop> is a virtual slot that calls set<Prop>, which the
\* SimpleSource overrides
sourcePush(s, i, value) == generateSimpleSetter(s, i, value)

\* the SimpleSource after construction: every property has its default value
NewSimpleSource(sig) == [signature |-> sig, properties |-> Defaults]

\* the source adapter forwards the change signals of the source object to the
\* connected Replica as property-change packets
Forwarded(kind, arg, r) ==
    /\ ~replica.released
    /\ link.up => Len(link.toReplica) + Len(r.emitted) <= MaxInFlight
    /\ source' = r.source
    /\ link' = IF link.up THEN [link EXCEPT !.toReplica = @ \o r.emitted] ELSE link
    /\ UNCHANGED persistedStore
    /\ op' = Step(kind, arg, r.emitted)
    /\ UNCHANGED <<replica, registryVars, generatorVars, connectionVars, modelVars>>

\* the application calls set<Prop>(value) or push<Prop>(value) of the SimpleSource
SimpleSourceSet(i, value) ==
    /\ hasSimpleSetter(ast.classes[1].properties[i])
    /\ Forwarded("SimpleSourceSet", [index |-> i, value |-> value],
                 generateSimpleSetter(source, i, value))
SimpleSourcePush(i, value) ==
    /\ hasPushSlot(ast.classes[1].properties[i])
    /\ Forwarded("SimpleSourcePush", [index |-> i, value |-> value],
                 sourcePush(source, i, value))

\* what the source adapter does with a packet of the Replica: a handshake is
\* answered with the snapshot, a property write calls set<Prop>, an invocation
\* calls the slot, and a reply is returned for a method that is not void
handlePacket(astClass, s, p) ==
    IF p.type = "Handshake"
    THEN [source |-> s, emitted |-> <<ObjectInitReply(s.signature, s.properties)>>]
    ELSE IF p.type = "WriteProperty" THEN generateSimpleSetter(s, p.index, p.value)
    ELSE IF "push" \in DOMAIN p.member THEN sourcePush(s, p.member.push, p.args[1])
    ELSE IF isVoid(astClass.slotsList[p.member.slot]) THEN [source |-> s, emitted |-> <<>>]
    ELSE [source |-> s, emitted |-> <<InvokeReply(p.serialId)>>]

\* the source adapter reads one packet of the Replica
SourceDispatch ==
    /\ ~replica.released
    /\ link.up
    /\ link.toSource # <<>>
    /\ LET p == Head(link.toSource)
           r == handlePacket(ast.classes[1], source, p)
       IN  /\ Len(link.toReplica) + Len(r.emitted) <= MaxInFlight
           /\ source' = r.source
           /\ link' = [link EXCEPT !.toSource = Tail(@), !.toReplica = @ \o r.emitted]
           /\ UNCHANGED persistedStore
           /\ op' = Step("SourceDispatch", p, r.emitted)
    /\ UNCHANGED <<replica, registryVars, generatorVars, connectionVars, modelVars>>

\* a generated Replica and the SimpleSource of the same class
InitGenerated ==
    /\ RegistryInit
    /\ sourceSignature = ExpectedSignature
    /\ op = Step("Init", "", "")
    /\ persistedStore = <<>>
    /\ replica = NewReplica
    /\ source = NewSimpleSource(ExpectedSignature)
    /\ link = NoLink
    /\ ConnectionUnused
    /\ ModelUnused
    /\ \E astClass \in GeneratedClasses : ast = AST(<<astClass>>, <<>>, <<>>)
    /\ mode = "REPLICA"
    /\ m_globalEnumsPODs = NoTypes
    /\ out = <<>>
    /\ generating = NotGenerating

NextGenerated ==
    \/ ReplicaAcquire
    \/ SourceDispatch
    \/ ReplicaReceive
    \/ ReplicaLinkLoss
    \/ \E i \in Properties, value \in Values : ReplicaSetter(i, value)
    \/ \E i \in Properties, value \in Values : ReplicaPush(i, value)
    \/ \E k \in 1..Len(GeneratedSlots) : ReplicaSlot(k)
    \/ \E i \in Properties, value \in Values : SimpleSourceSet(i, value)
    \/ \E i \in Properties, value \in Values : SimpleSourcePush(i, value)

SpecGenerated == InitGenerated /\ [][NextGenerated]_vars

(* ------------- repc: the signals of the generated classes -------------- *)

\* the name of the change signal of a property
changeSignal(property) == property.name \o Changed

\* a Replica that declares the change signals of all properties first
declaredSignals_InPropertyOrder(generatedMode, astClass) ==
    [i \in 1..Len(astClass.properties) |-> changeSignal(astClass.properties[i])]
      \o [i \in 1..Len(astClass.signalsList) |-> astClass.signalsList[i].name]

\* the Q_SIGNALS section generateClass writes for the Source and the Replica:
\* the change signals of the properties that are not constant, the signals of
\* the class and, in the Replica only, the change signals of the constant ones
declaredSignals(generatedMode, astClass) ==
    LET changing == SelectSeq(astClass.properties,
                              LAMBDA prop : prop.modifier # Modifier.Constant)
        constant == SelectSeq(astClass.properties,
                              LAMBDA prop : prop.modifier = Modifier.Constant)
    IN  [i \in 1..Len(changing) |-> changeSignal(changing[i])]
          \o [i \in 1..Len(astClass.signalsList) |-> astClass.signalsList[i].name]
          \o (IF generatedMode = "REPLICA"
              THEN [i \in 1..Len(constant) |-> changeSignal(constant[i])]
              ELSE <<>>)

\* the signal of a generated class that has this index, counted from the
\* first signal the class declares
signalAt(signals, signalIndex) ==
    IF signalIndex \in 0..(Len(signals) - 1) THEN signals[signalIndex + 1] ELSE <<>>

\* an object of the Source class emits the signal m_signals[signalIndex + 1];
\* the packet carries the index, and the Replica emits its signal of that index
SourceSignal(signalIndex) ==
    /\ signalIndex < Len(m_signals(ast.classes[1]))
    /\ UNCHANGED persistedStore
    /\ op' = Step("SourceSignal", signalIndex,
                  [api |-> m_signals(ast.classes[1])[signalIndex + 1].name,
                   source |-> signalAt(declaredSignals("SOURCE", ast.classes[1]), signalIndex),
                   replica |-> signalAt(declaredSignals("REPLICA", ast.classes[1]), signalIndex)])
    /\ UNCHANGED <<replicaVars, registryVars, generatorVars, connectionVars, modelVars>>

\* the Replica emits a signal that is its own: no signal of the Source has the index
ReplicaSignal(signalIndex) ==
    /\ signalIndex >= Len(m_signals(ast.classes[1]))
    /\ signalIndex < Len(declaredSignals("REPLICA", ast.classes[1]))
    /\ UNCHANGED persistedStore
    /\ op' = Step("ReplicaSignal", signalIndex,
                  [api |-> <<>>,
                   source |-> signalAt(declaredSignals("SOURCE", ast.classes[1]), signalIndex),
                   replica |-> signalAt(declaredSignals("REPLICA", ast.classes[1]), signalIndex)])
    /\ UNCHANGED <<replicaVars, registryVars, generatorVars, connectionVars, modelVars>>

NextSignals ==
    \/ \E signalIndex \in 0..MaxSignalIndex : SourceSignal(signalIndex)
    \/ \E signalIndex \in 0..MaxSignalIndex : ReplicaSignal(signalIndex)

SpecSignals == InitSourceAPI /\ [][NextSignals]_vars

(* ------------- repc: the persisted properties of a Replica ------------- *)

\* the classes with persisted properties: each of the two properties is
\* PERSISTED or not, and hasPersisted tells whether one of them is
PersistedProperty(name, isPersisted) ==
    ASTProperty(<<"T">>, name, Modifier.ReadWrite) @@ [persisted |-> isPersisted]
PersistedClasses ==
    {ASTClass(<<"A">>,
              [i \in Properties |-> PersistedProperty(PropertyNames[i], flags[i])],
              <<>>, <<>>, <<>>, \E i \in Properties : flags[i]) :
        flags \in [Properties -> BOOLEAN]}

\* persistProperties and retrieveProperties of the Replica: the node keeps one
\* list of values for the name and the signature of the class, which is empty
\* until a list was kept
persistProperties(stored, values) == values
retrieveProperties(stored) == stored

\* the destructor generateClass writes for the Replica: with persisted
\* properties, their values are collected in declaration order and kept
RECURSIVE collect(_, _, _)
collect(astClass, r, i) ==
    IF i > Len(astClass.properties) THEN <<>>
    ELSE IF astClass.properties[i].persisted
    THEN <<propAsVariant(r, i)>> \o collect(astClass, r, i + 1)
    ELSE collect(astClass, r, i + 1)
destructor(astClass, r, stored) ==
    IF astClass.hasPersisted
    THEN persistProperties(stored, collect(astClass, r, 1))
    ELSE stored

\* the loop of initialize() over the properties: the persisted property at i
\* takes the stored value that nPersisted counts
RECURSIVE restore(_, _, _, _, _)
restore(astClass, stored, properties, i, nPersisted) ==
    IF i > Len(astClass.properties) THEN properties
    ELSE IF astClass.properties[i].persisted
    THEN restore(astClass, stored, [properties EXCEPT ![i] = stored[nPersisted + 1]],
                 i + 1, nPersisted + 1)
    ELSE restore(astClass, stored, properties, i + 1, nPersisted)

\* an initialize() that puts the k-th stored value into the k-th property
initialProperties_ByPosition(astClass, stored) ==
    IF astClass.hasPersisted /\ stored # <<>>
    THEN [i \in Properties |-> IF i <= Len(stored) THEN stored[i] ELSE Defaults[i]]
    ELSE Defaults

\* the initialize() generateClass writes for the Replica: the properties get
\* their default values, and the stored values if there are any
initialProperties(astClass, stored) ==
    IF astClass.hasPersisted /\ stored # <<>>
    THEN restore(astClass, stored, Defaults, 1, 0)
    ELSE Defaults

\* the Replica is destroyed
ReplicaDestroy ==
    /\ ~replica.released
    /\ persistedStore' = destructor(ast.classes[1], replica, persistedStore)
    /\ replica' = [replica EXCEPT !.released = TRUE]
    /\ link' = NoLink
    /\ op' = Step("Destroy", replica.cachedProperties, persistedStore')
    /\ UNCHANGED <<source, registryVars, generatorVars, connectionVars, modelVars>>

\* a Replica of the class is acquired again and initialized
ReplicaRecreate ==
    /\ replica.released
    /\ replica' = [NewReplica EXCEPT
                      !.cachedProperties =
                          initialProperties(ast.classes[1], retrieveProperties(persistedStore))]
    /\ op' = Step("Recreate", persistedStore, replica'.cachedProperties)
    /\ UNCHANGED <<persistedStore, source, link, registryVars, generatorVars, connectionVars,
                   modelVars>>

\* a generated Replica with persisted properties, and the Source it follows
InitPersisted ==
    /\ RegistryInit
    /\ sourceSignature = ExpectedSignature
    /\ op = Step("Init", "", "")
    /\ persistedStore = <<>>
    /\ \E astClass \in PersistedClasses :
          /\ ast = AST(<<astClass>>, <<>>, <<>>)
          /\ replica = [NewReplica EXCEPT
                           !.cachedProperties = initialProperties(astClass, <<>>)]
    /\ source = NewSource(ExpectedSignature)
    /\ link = NoLink
    /\ ConnectionUnused
    /\ ModelUnused
    /\ mode = "REPLICA"
    /\ m_globalEnumsPODs = NoTypes
    /\ out = <<>>
    /\ generating = NotGenerating

NextPersisted ==
    \/ ReplicaAcquire
    \/ SourceProcess
    \/ \E i \in Properties, value \in Values : SourceSet(i, value)
    \/ ReplicaReceive
    \/ ReplicaDestroy
    \/ ReplicaRecreate

SpecPersisted == InitPersisted /\ [][NextPersisted]_vars

(* ------------- FetchData: the rows a notification announces ------------ *)

\* hasChildren(parent) of the replica, and whether index(row, 0, parent) is valid
hasChildren(m, parent) == rowCount(m, parent) > 0 /\ columnCount(m, parent) > 0
isValid(m, row, parent) == row \in 1..rowCount(m, parent)

\* a replica that notifies of the rows before it has them
atEmission_NotYetApplied(m, p) == m

\* the replica that the slots connected to the notification of p read: the
\* rows of p are in it
atEmission(m, p) == apply(m, p)

\* FetchData::rowsInserted(parent, first, last): what its QVERIFYs require of
\* the replica
rowsInserted(m, parent, first, last) ==
    /\ hasChildren(m, parent) /\ columnCount(m, parent) > 0 /\ rowCount(m, parent) > 0
    /\ \A i \in first..last : \A j \in 1..columnCount(m, parent) : isValid(m, i, parent)

\* the replica processes a packet of the source model while a FetchData is
\* connected to its rowsInserted signal
FetchDataReceive ==
    /\ model.initialized
    /\ modelLink.toReplica # <<>>
    /\ LET p == Head(modelLink.toReplica)
           signals == notification(model, p)
       IN  /\ model' = apply(model, p)
           /\ spy' = record(spy, signals)
           /\ op' = Step("FetchData", signals,
                         \A k \in 1..Len(signals) :
                             signals[k].type = "rowsInserted"
                                 => rowsInserted(atEmission(model, p), signals[k].index,
                                                 signals[k].start, signals[k].end))
    /\ modelLink' = [modelLink EXCEPT !.toReplica = Tail(@)]
    /\ UNCHANGED <<persistedStore, sourceModel, registryVars, generatorVars, replicaVars,
                   connectionVars>>

\* rows are inserted and removed in the source model, and a FetchData follows
\* the notifications of the replica and fetches the data of its rows
NextFetchData ==
    \/ ModelAcquire
    \/ \E parent \in 0..MaxNodes, row \in 1..MaxNodes : ModelFetch(parent, row, "display")
    \/ SourceReply
    \/ FetchDataReceive
    \/ \E parent \in 0..MaxNodes, first \in 1..MaxNodes, count \in 1..2 :
           SourceInsertRows(parent, first, count)
    \/ \E parent \in 0..MaxNodes, first \in 1..MaxNodes, count \in 1..2 :
           SourceRemoveRows(parent, first, count)

SpecFetchData == InitModel /\ [][NextFetchData]_vars

(* ------------------------------ properties ----------------------------- *)

\* the number of times packet p occurs in the sequence s
Count(s, p) == Cardinality({k \in 1..Len(s) : s[k] = p})

\* C1: addSource(name, endpoint) for a name that is not hosted yet records
\* name -> endpoint in hostedSources; if the replica is Valid and name is not a
\* key of sourceLocations, exactly one add-notification (name, endpoint) is sent.
C1_AddSourceRecordsAndAnnounces ==
    [][(op'.kind = "addSource" /\ ~contains(hostedSources, op'.name)) =>
          /\ contains(hostedSources', op'.name)
          /\ hostedSources'[op'.name] = op'.url
          /\ (state = "Valid" /\ ~contains(sourceLocations, op'.name)) =>
                /\ sent' = <<AddPacket(op'.name, op'.url)>>
                /\ toRegistry' = Append(toRegistry, AddPacket(op'.name, op'.url))]_vars

\* a Valid replica has just announced a new source whose name was unclaimed
C1_Witness ==
    /\ op.kind = "addSource"
    /\ state = "Valid"
    /\ ~contains(sourceLocations, op.name)
    /\ contains(hostedSources, op.name)
    /\ hostedSources[op.name] = op.url
    /\ sent = <<AddPacket(op.name, op.url)>>

\* C2: addSource in state Valid for a name the remote table already maps sends
\* no add-notification, leaves the replica state, the cached table and the
\* connection as they were, and tells the caller only through a log warning.
C2_CollisionNotPublished ==
    [][(op'.kind = "addSource" /\ state = "Valid" /\ contains(sourceLocations, op'.name)) =>
          /\ sent' = <<>>
          /\ toRegistry' = toRegistry
          /\ toNode' = toNode
          /\ state' = state
          /\ sourceLocations' = sourceLocations
          /\ regTable' = regTable
          /\ \E w \in warned' : w.name = op'.name]_vars

\* a Valid replica has just refused to publish a source whose name is claimed
C2_Witness ==
    /\ op.kind = "addSource"
    /\ state = "Valid"
    /\ contains(sourceLocations, op.name)
    /\ sourceLocations[op.name] \in RemoteUrls
    /\ warned = {Warning(op.name, AnotherSource)}
    /\ sent = <<>>
    /\ contains(hostedSources, op.name)

\* C6: removeSource for a hosted name removes it from hostedSources and sends
\* exactly one remove-notification if and only if the replica is Valid;
\* removeSource for a name that is not hosted changes and sends nothing.
C6_RemoveSource ==
    [][op'.kind = "removeSource" =>
          IF contains(hostedSources, op'.name)
          THEN /\ hostedSources' = remove(hostedSources, op'.name)
               /\ state = "Valid" => /\ sent' = <<RemovePacket(op'.name, op'.url)>>
                                     /\ toRegistry' = Append(toRegistry, RemovePacket(op'.name, op'.url))
               /\ state # "Valid" => sent' = <<>> /\ toRegistry' = toRegistry
          ELSE /\ hostedSources' = hostedSources
               /\ sent' = <<>>
               /\ toRegistry' = toRegistry
               /\ state' = state /\ sourceLocations' = sourceLocations]_vars

\* a hosted source has just been removed while the link was down: nothing was sent
C6_Witness ==
    /\ op.kind = "removeSource"
    /\ state = "Suspect"
    /\ ~contains(hostedSources, op.name)
    /\ contains(regTable, op.name)
    /\ regTable[op.name] = op.url
    /\ sent = <<>>

\* the step takes the replica into Valid
BecomesValid == state # "Valid" /\ state' = "Valid"

\* some packet of the sequence s names the source n
Mentions(s, n) == \E k \in 1..Len(s) : s[k].name = n

\* C4: at every transition into Valid a hosted source whose name the remote
\* table maps to a different endpoint is dropped and not announced, and every
\* other hosted source (name absent, or mapped to this same endpoint) is
\* announced once and stays hosted.
C4_ReconcileByEndpoint ==
    [][BecomesValid =>
          \A n \in DOMAIN hostedSources :
              IF contains(sourceLocations', n) /\ sourceLocations'[n] # hostedSources[n]
              THEN /\ ~contains(hostedSources', n)
                   /\ ~Mentions(sent', n)
              ELSE /\ contains(hostedSources', n)
                   /\ hostedSources'[n] = hostedSources[n]
                   /\ Count(sent', AddPacket(n, hostedSources[n])) = 1]_vars

\* C5: a reconnect (Suspect -> Connecting -> Valid) with N hosted sources whose
\* names the remote table does not hold sends exactly N add-notifications, one
\* per hosted source, and hostedSources survives the time the link is down.
C5_ReconnectReannounces ==
    [][/\ op'.kind \in {"LinkLoss", "Reconnect"} => hostedSources' = hostedSources
       /\ (reconnected /\ BecomesValid
             /\ \A n \in DOMAIN hostedSources : ~contains(sourceLocations', n)) =>
             /\ Len(sent') = Cardinality(DOMAIN hostedSources)
             /\ \A n \in DOMAIN hostedSources : Count(sent', AddPacket(n, hostedSources[n])) = 1
             /\ hostedSources' = hostedSources]_vars

\* a reconnect has just announced two hosted sources again
C5_Witness ==
    /\ op.kind = "ReceiveInit"
    /\ reconnected
    /\ state = "Valid"
    /\ Cardinality(DOMAIN hostedSources) = 2
    /\ Len(sent) = 2
    /\ \A n \in DOMAIN hostedSources : ~contains(sourceLocations, n)

\* C7: a source added while the replica is not Valid is recorded with no packet
\* sent, and at the next transition into Valid every hosted source is either
\* announced or dropped with the collision warning.
C7_LateAnnouncement ==
    [][/\ (op'.kind = "addSource" /\ state # "Valid" /\ ~contains(hostedSources, op'.name)) =>
             /\ contains(hostedSources', op'.name)
             /\ hostedSources'[op'.name] = op'.url
             /\ sent' = <<>>
             /\ toRegistry' = toRegistry
       /\ BecomesValid =>
             \A n \in DOMAIN hostedSources :
                 \/ /\ contains(hostedSources', n)
                    /\ Count(sent', AddPacket(n, hostedSources[n])) = 1
                 \/ /\ ~contains(hostedSources', n)
                    /\ Warning(n, AnotherSource) \in warned']_vars

\* the first connection has just announced a source that was added before it
C7_Witness ==
    /\ op.kind = "ReceiveInit"
    /\ ~reconnected
    /\ state = "Valid"
    /\ sent # <<>>
    /\ \A k \in 1..Len(sent) : /\ contains(hostedSources, sent[k].name)
                               /\ sent[k] = AddPacket(sent[k].name, hostedSources[sent[k].name])

RegistryStep ==
    op'.kind \in {"RegistryAddSource", "RegistryRemoveSource", "RemoteAddSource", "RemoteRemoveSource"}

\* the remoteObjectAdded notifications that are on their way or were just emitted
AddedNotifications ==
    {toNode[k] : k \in {j \in 1..Len(toNode) : toNode[j].type = "remoteObjectAdded"}}
        \cup {emitted[k] : k \in {j \in 1..Len(emitted) : emitted[j].type = "remoteObjectAdded"}}

C10_SnapshotIsolation ==
    [][/\ (op'.kind = "ReceiveInit" /\ push'.pc = "loop") => push'.sourceLocs = sourceLocations'
       /\ (push.pc = "loop" /\ push'.pc = "loop") => push'.sourceLocs = push.sourceLocs
       /\ op'.kind = "pushIteration" =>
             IF contains(push.sourceLocs, op'.name)
             THEN /\ hostedSources' = remove(hostedSources, op'.name)
                  /\ sent' = <<>>
             ELSE /\ hostedSources' = hostedSources
                  /\ sent' = <<AddPacket(op'.name, hostedSources[op'.name])>>]_vars

\* an iteration has just decided on a name that the table has gained or lost
\* since the loop took its copy
C10_Witness ==
    /\ op.kind = "pushIteration"
    /\ push.pc = "loop"
    /\ contains(push.sourceLocs, op.name) # contains(sourceLocations, op.name)

(* --------------------- properties of the Replica (4.3) ----------------- *)

\* the step in which the Replica reads the initialization reply it waits for
ReadsInitReply ==
    /\ op'.kind = "Receive"
    /\ op'.arg.type = "InitReply"
    /\ replica.state = "Connecting"

\* C11: a Replica enters Valid only from Connecting and only by reading an
\* initialization reply whose signature equals its expected signature, and it
\* then holds the property snapshot of that reply; a reply with another
\* signature takes it to SignatureMismatch, where every property read returns
\* the default, every write is refused and Valid is never entered.
C11_ValidOnlyByMatchingInit ==
    /\ [](replica.state = "SignatureMismatch" =>
              \A i \in Properties : propAsVariant(replica, i) = Default)
    /\ [][/\ (replica.state # "Valid" /\ replica'.state = "Valid") =>
                /\ ReadsInitReply
                /\ op'.arg.signature = replica.signature
          /\ (ReadsInitReply /\ op'.arg.signature = replica.signature) =>
                /\ replica'.state = "Valid"
                /\ replica'.cachedProperties = op'.arg.propertyValues
          /\ (ReadsInitReply /\ op'.arg.signature # replica.signature) =>
                replica'.state = "SignatureMismatch"
          /\ replica.state = "SignatureMismatch" =>
                /\ replica'.state # "Valid"
                /\ op'.kind = "Write" => op'.result = "refused" /\ link' = link]_vars

\* a Replica that was Valid before has read a reply with another signature:
\* it is in SignatureMismatch and reads the default, not the values of the reply
C11_Witness ==
    /\ op.kind = "Receive"
    /\ op.arg.type = "InitReply"
    /\ op.arg.signature = OtherSignature
    /\ op.arg.propertyValues \in Snapshots
    /\ replica.state = "SignatureMismatch"
    /\ \A i \in Properties : propAsVariant(replica, i) = Default
    /\ \E id \in DOMAIN replica.calls : replica.calls[id].outcome = "value"

\* C12: SignatureMismatch is terminal: whatever happens to a Replica in
\* SignatureMismatch (link loss, reconnection, further packets, calls,
\* writes), it stays in SignatureMismatch.
C12_SignatureMismatchTerminal ==
    [][replica.state = "SignatureMismatch" => replica'.state = "SignatureMismatch"]_vars

\* a Replica in SignatureMismatch has lost its link, was reconnected to a
\* Source with the expected signature and has read a packet of that Source
C12_Witness ==
    /\ replica.state = "SignatureMismatch"
    /\ source.signature = ExpectedSignature
    /\ op.kind = "Receive"
    /\ op.arg.type = "PropertyChanged"

IsPrefix(a, b) == Len(a) <= Len(b) /\ SubSeq(b, 1, Len(a)) = a

\* C15: the packets addressed to one object are processed in the order in
\* which they were sent for that object, whatever packets of other objects the
\* connection carries between them: at every moment the packets processed for
\* an object are an initial part of the packets sent for it, and each step
\* processes the oldest packet of its object that is still in flight.
C15_PerObjectOrder ==
    /\ [](\A o \in Objects :
              IsPrefix(packetsOf(connection.processed, o), packetsOf(connection.sent, o)))
    /\ [][op'.kind = "Dispatch" =>
              /\ Len(connection'.processed) = Len(connection.processed) + 1
              /\ LET p == connection'.processed[Len(connection'.processed)] IN
                 /\ p.object = op'.arg
                 /\ p.seq = Len(packetsOf(connection.processed, op'.arg)) + 1]_vars

\* every packet of two objects was processed, each object's packets in the
\* order they were sent, but a packet of one object before an older packet of
\* the other object
C15_Witness ==
    /\ Len(connection.processed) = Len(connection.sent)
    /\ \A o \in Objects : Len(packetsOf(connection.sent, o)) >= 2
    /\ \A o \in Objects : packetsOf(connection.processed, o) = packetsOf(connection.sent, o)
    /\ connection.processed # connection.sent

(* ------------------- properties of the model replica ------------------- *)

\* C16: a fetch of a cell and role whose value is not cached returns a default
\* value and issues one request for that cell and role; a reply for a cell of
\* the replica is stored in the cache and notified as a change of that cell;
\* a fetch of a cached cell and role returns the cached value and issues no
\* request; and a cache slot takes a value only from a packet that carries
\* this value for its cell and role.
C16_FetchRequestsOnce ==
    [][/\ op'.kind = "data" =>
              IF hasData(model, op'.arg.node, op'.arg.role)
              THEN /\ op'.result = model.data[op'.arg.node][op'.arg.role]
                   /\ modelLink' = modelLink
              ELSE /\ op'.result = Default
                   /\ modelLink'.toSource =
                          Append(modelLink.toSource, DataRequest(op'.arg.node, op'.arg.role))
                   /\ modelLink'.toReplica = modelLink.toReplica
       /\ (op'.kind = "receive" /\ op'.arg.type = "DataReply" /\ op'.arg.node \in nodes(model)) =>
              /\ model'.data[op'.arg.node][op'.arg.role] = op'.arg.value
              /\ op'.result = <<[type |-> "dataChanged", node |-> op'.arg.node]>>
       /\ \A n \in DOMAIN model.data, role \in Roles :
              (model'.data[n][role] # model.data[n][role] /\ model'.data[n][role] # NotCached) =>
                  /\ op'.kind = "receive"
                  /\ op'.arg.type \in {"DataReply", "DataChanged"}
                  /\ op'.arg.node = n /\ op'.arg.role = role
                  /\ op'.arg.value = model'.data[n][role]]_vars

\* a fetch returned the value that a reply delivered, without a new request,
\* while the source model had not been changed
C16_Witness ==
    /\ op.kind = "data"
    /\ op.arg.request = <<>>
    /\ op.result = "v1"
    /\ modelLink.changes = 0
    /\ modelLink.toSource = <<>>

\* every cell of the replica holds a received value for every role
FullyFetched(m) ==
    /\ m.initialized
    /\ \A n \in nodes(m), role \in Roles : hasData(m, n, role)

\* compareData(sourceModel, replica): the row count, the column count and the
\* role names of the top level agree, and so does the data of every top-level
\* cell for every role of the replica
compareData(s, r) ==
    /\ rowCount(r, Root) = rowCount(s, Root)
    /\ columnCount(r, Root) = columnCount(s, Root)
    /\ r.roleNames = s.roleNames
    /\ \A i \in 1..rowCount(s, Root), role \in r.roleNames :
           data(r, index(r, i, Root), role) = s.data[index(s, i, Root)][role]

\* compareIndex(sourceIndex, replicaIndex, roles): the data of the two indexes
\* agrees for every role, they have as many rows (and columns, if they have
\* rows), and the same holds for their children row by row
RECURSIVE compareIndex(_, _, _, _)
compareIndex(s, r, sourceIndex, replicaIndex) ==
    /\ \A role \in r.roleNames : data(r, replicaIndex, role) = s.data[sourceIndex][role]
    /\ rowCount(r, replicaIndex) = rowCount(s, sourceIndex)
    /\ rowCount(s, sourceIndex) # 0 =>
           columnCount(r, replicaIndex) = columnCount(s, sourceIndex)
    /\ \A i \in 1..rowCount(s, sourceIndex) :
           compareIndex(s, r, index(s, i, sourceIndex), index(r, i, replicaIndex))

\* compareTreeData(sourceModel, replica)
compareTreeData(s, r) ==
    /\ rowCount(r, Root) = rowCount(s, Root)
    /\ columnCount(r, Root) = columnCount(s, Root)
    /\ \A i \in 1..rowCount(s, Root) : compareIndex(s, r, index(s, i, Root), index(r, i, Root))

\* C17: when every cell and role of the replica has been requested and every
\* request has been answered, and the source model was not changed, the
\* replica equals the source model: the same rowCount and columnCount under
\* every parent, the same roleNames, and the same data for every cell and role.
C17_FetchedEqualsSource ==
    (/\ FullyFetched(model)
     /\ modelLink.toSource = <<>> /\ modelLink.toReplica = <<>>
     /\ modelLink.changes = 0)
    => (compareData(sourceModel, model) /\ compareTreeData(sourceModel, model))

\* every cell of the tree model was fetched and answered
C17_Witness ==
    /\ sourceModel = TreeModel
    /\ FullyFetched(model)
    /\ modelLink = NoModelLink
    /\ op.kind = "receive"

\* a packet of the given type is on its way to the replica
InFlight(type) ==
    \E k \in 1..Len(modelLink.toReplica) : modelLink.toReplica[k].type = type

\* the replica holds for every cell and role what the source model holds
SameData(s, r) ==
    \A n \in nodes(r), role \in Roles : r.data[n][role] = s.data[n][role]

\* C18: every setData on the source model of a fully fetched replica sends one
\* change of that cell, role and value to the replica; it is eventually
\* processed there and notified as dataChanged of the changed cell; and
\* whenever no such change is in flight, the fully fetched replica holds the
\* data of the source model for every cell and role.
C18_SetDataReachesReplica ==
    /\ [][op'.kind = "setData" =>
              modelLink'.toReplica =
                  Append(modelLink.toReplica,
                         DataChanged(op'.arg.node, op'.arg.role, op'.result))]_vars
    /\ \A n \in 1..MaxNodes :
           (op.kind = "setData" /\ op.arg.node = n /\ FullyFetched(model))
           ~> (/\ op.kind = "receive"
               /\ op.arg.type = "DataChanged"
               /\ op.arg.node = n
               /\ op.result = <<[type |-> "dataChanged", node |-> n]>>)
    /\ []((FullyFetched(model) /\ ~InFlight("DataChanged"))
              => (SameData(sourceModel, model) /\ compareTreeData(sourceModel, model)))

\* the replica of the tree model has processed the change of a cell it had
\* cached, and holds the new value of the source model
C18_Witness ==
    /\ sourceModel.rows = TreeModel.rows
    /\ FullyFetched(model)
    /\ modelLink.changes >= 1
    /\ modelLink.toSource = <<>> /\ modelLink.toReplica = <<>>
    /\ op.kind = "receive" /\ op.arg.type = "DataChanged"
    /\ model.data[op.arg.node][op.arg.role] = "v2"
    /\ SameData(sourceModel, model)

\* C19: the rowsInserted notifications of the replica are, one for one and in
\* order, the insertions made in the source model, each with the parent and
\* the range first..last of its insertion: a notification is emitted only
\* when the replica processes the packet of an insertion and carries its
\* arguments, the k-th insertion eventually has its k-th notification, and
\* when no insertion is in flight there are exactly as many notifications as
\* insertions (waitForSignal succeeds); when no insertion or removal is in
\* flight the replica has the rows of the source model under every parent.
C19_OneRowsInsertedPerInsertion ==
    /\ [](IsPrefix(spy.rowsInserted, spy.insertedRows))
    /\ [][(op'.kind = "receive" /\ op'.arg.type = "RowsInserted") =>
              /\ op'.result = <<[type |-> "rowsInserted", index |-> op'.arg.index,
                                 start |-> op'.arg.start, end |-> op'.arg.end]>>
              /\ Len(spy'.rowsInserted) = Len(spy.rowsInserted) + 1
              /\ rowCount(model', op'.arg.index)
                     = rowCount(model, op'.arg.index) + (op'.arg.end - op'.arg.start + 1)]_vars
    /\ [][op'.kind = "insertRows" =>
              modelLink'.toReplica =
                  Append(modelLink.toReplica,
                         RowsInserted(op'.arg.index, op'.arg.start, op'.arg.end))]_vars
    /\ \A k \in 1..MaxChanges :
           (Len(spy.insertedRows) >= k) ~> (Len(spy.rowsInserted) >= k)
    /\ [](~InFlight("RowsInserted") => waitForSignal(spy.insertedRows, spy.rowsInserted))
    /\ []((~InFlight("RowsInserted") /\ ~InFlight("RowsRemoved") /\ model.initialized) =>
              \A parent \in parents(sourceModel) :
                  rowCount(model, parent) = rowCount(sourceModel, parent))

\* two separate insertions were made in the source model and the replica has
\* emitted exactly two notifications, with their parents and ranges
C19_Witness ==
    /\ Len(spy.insertedRows) = 2
    /\ spy.rowsInserted = spy.insertedRows
    /\ spy.insertedRows[1] # spy.insertedRows[2]
    /\ modelLink.toReplica = <<>>
    /\ rowCount(model, Root) = rowCount(sourceModel, Root)
    /\ rowCount(model, Root) = 2

\* no change of the source model is on its way to the replica
Settled ==
    /\ model.initialized
    /\ ~InFlight("RowsInserted") /\ ~InFlight("RowsRemoved") /\ ~InFlight("DataChanged")

\* C20: the rowsRemoved notifications of the replica are, one for one and in
\* order, the removals made in the source model, each with the parent and the
\* range first..last of its removal: processing a removal emits exactly one
\* notification with the packet's arguments and shrinks the parent by the
\* removed rows, the k-th removal eventually has its k-th notification, and
\* when no removal is in flight waitForSignal succeeds; when no change is in
\* flight the replica has the rowCount of the source model under every parent,
\* and what it has cached for a row is what the source model holds in the row
\* at the same index.
C20_OneRowsRemovedPerRemoval ==
    /\ [](IsPrefix(spy.rowsRemoved, spy.removedRows))
    /\ [][(op'.kind = "receive" /\ op'.arg.type = "RowsRemoved") =>
              /\ op'.result = <<[type |-> "rowsRemoved", index |-> op'.arg.index,
                                 start |-> op'.arg.start, end |-> op'.arg.end]>>
              /\ Len(spy'.rowsRemoved) = Len(spy.rowsRemoved) + 1
              /\ rowCount(model', op'.arg.index)
                     = rowCount(model, op'.arg.index) - (op'.arg.end - op'.arg.start + 1)]_vars
    /\ [][op'.kind = "removeRows" =>
              modelLink'.toReplica =
                  Append(modelLink.toReplica,
                         RowsRemoved(op'.arg.index, op'.arg.start, op'.arg.end))]_vars
    /\ \A k \in 1..MaxChanges :
           (Len(spy.removedRows) >= k) ~> (Len(spy.rowsRemoved) >= k)
    /\ [](~InFlight("RowsRemoved") => waitForSignal(spy.removedRows, spy.rowsRemoved))
    /\ [](Settled =>
              \A parent \in parents(sourceModel) :
                  /\ rowCount(model, parent) = rowCount(sourceModel, parent)
                  /\ \A row \in 1..rowCount(sourceModel, parent), role \in Roles :
                         hasData(model, index(model, row, parent), role) =>
                             data(model, index(model, row, parent), role)
                                 = sourceModel.data[index(sourceModel, row, parent)][role])

\* the first of two rows was removed; the replica has emitted the one
\* notification, and a fetch of the row that moved up returned its own value
C20_Witness ==
    /\ spy.removedRows = <<InsertedRow(Root, 1, 1)>>
    /\ spy.rowsRemoved = spy.removedRows
    /\ Settled
    /\ model.rows[Root] = <<2>>
    /\ op.kind = "data" /\ op.arg.node = 2 /\ op.arg.role = "display"
    /\ op.arg.request = <<>>
    /\ op.result = "v2"
    /\ sourceModel.data[1]["display"] = "default"

(* ------------- properties of row identity (4.4, section 8) ------------- *)

\* of the model with the rows 0..9 the rows 2..4 were removed, then two rows
\* were inserted at row 2, and the replica has processed both changes
RemovedThenInserted ==
    /\ spy.removedRows = <<InsertedRow(Root, 3, 5)>>
    /\ spy.insertedRows = <<InsertedRow(Root, 3, 4)>>
    /\ spy.rowsRemoved = spy.removedRows
    /\ spy.rowsInserted = spy.insertedRows
    /\ op.kind = "receive" /\ op.arg.type = "RowsInserted"
    /\ modelLink.toReplica = <<>>

\* the statement that the rows originally numbered 5..9 are then the rows 3..7
C21_RenumberedTo3To7 ==
    RemovedThenInserted =>
        \A i \in 5..9 : row0(model, i - 2) = row0(RowsModel, i)

\* C21: after the rows 2..4 of the model with the rows 0..9 were removed and
\* two rows were inserted at row 2, the rows originally numbered 5..9 have the
\* node identifiers they had before, in the source model and in the replica,
\* and are now the rows 4..8; the rows 2 and 3 are the two new rows, whose
\* identifiers no row had before.
C21_RenumberedTo4To8 ==
    RemovedThenInserted =>
        /\ \A i \in 5..9 :
               /\ row0(model, i - 1) = row0(RowsModel, i)
               /\ row0(sourceModel, i - 1) = row0(RowsModel, i)
        /\ \A i \in 2..3 : row0(model, i) \notin nodes(RowsModel)
        /\ \A i \in 0..1 : row0(model, i) = row0(RowsModel, i)
        /\ rowCount(model, Root) = 9

\* the replica after the removal of the rows 2..4 and the insertion of two
\* rows at row 2
C21_Witness ==
    /\ RemovedThenInserted
    /\ rowCount(model, Root) = 9
    /\ row0(model, 8) = row0(RowsModel, 9)

WriteInFlight ==
    \E k \in 1..Len(modelLink.toSource) : modelLink.toSource[k].type = "SetData"

C26_SignatureDeterministic ==
    \A i, j \in 1..Len(out) :
        out[i].class = out[j].class => out[i].signature = out[j].signature

\* class B, generated after a class A that declares the enumeration B uses and
\* that has persisted properties, has its signature in the Replica class of
\* the REPLICA file and in the Source class and the SourceAPI of the MERGED file
C26_Witness ==
    /\ Len(ast.classes) = 2
    /\ ast.classes[1].name = <<"A">>
    /\ ast.classes[1].hasPersisted
    /\ ast.classes[2].properties[1].type = <<"E">>
    /\ \E i, j, k \in 1..Len(out) :
          /\ out[i] = [file |-> "REPLICA", class |-> <<"B">>, part |-> "Replica",
                       signature |-> out[k].signature]
          /\ out[j] = [file |-> "MERGED", class |-> <<"B">>, part |-> "Source",
                       signature |-> out[k].signature]
          /\ out[k].file = "MERGED" /\ out[k].class = <<"B">> /\ out[k].part = "SourceAPI"

\* C27: two class descriptions that are identical except for the type name of
\* one property, of one parameter or of one return type add different bytes to
\* the checksum and get different signatures
C27_TypeChangesSignature ==
    \A i, j \in 1..Len(out) :
        out[i].description # out[j].description
            => out[i].added # out[j].added /\ out[i].signature # out[j].signature

\* the property that signal index i of the SourceAPI notifies of, as a
\* position in the declared list of properties from 0; -1 if the index is
\* that of a signal of the class, or of no signal
notified(astClass, i) ==
    IF i \in 0..(Len(m_signals(astClass)) - 1) /\ m_signals(astClass)[i + 1].notifies # <<>>
    THEN (CHOOSE k \in 1..Len(astClass.properties) :
              astClass.properties[k].name = m_signals(astClass)[i + 1].notifies) - 1
    ELSE -1

\* C28: propertyIndexFromSignal(i) returns the source property index of the
\* property whose change signal has index i, and -1 for every other index;
\* propertyRawIndexFromSignal(i) returns the position of that property in the
\* declared list of properties, or -1
C28_PropertyIndexFromSignal ==
    LET astClass == ast.classes[1]
        position == notified(astClass, op.arg)
    IN  /\ op.kind = "propertyIndexFromSignal" =>
              op.result = IF position = -1 THEN -1
                          ELSE indexOfProperty(source, astClass.properties[position + 1].name)
        /\ op.kind = "propertyRawIndexFromSignal" => op.result = position

\* the class has a constant property before a property with a change signal,
\* and its object type orders the properties the other way round: signal 0
\* is mapped to the second property
C28_Witness ==
    /\ op.kind = "propertyIndexFromSignal"
    /\ op.arg = 0
    /\ Len(ast.classes[1].properties) = 2
    /\ ast.classes[1].properties[1].modifier = Modifier.Constant
    /\ ast.classes[1].signalsList # <<>>
    /\ source.properties = <<(<<"q">>), (<<"p">>)>>
    /\ op.result = source.propertyOffset

C30_HostedNameIgnored ==
    [][op'.kind = "addSource" /\ contains(hostedSources, op'.name)
          => /\ hostedSources' = hostedSources
             /\ sent' = <<>>
             /\ toRegistry' = toRegistry]_vars

\* a Valid replica whose table lacks the name was asked to add a hosted name
\* under another endpoint than the recorded one
C30_Witness ==
    /\ op.kind = "addSource"
    /\ state = "Valid"
    /\ contains(hostedSources, op.name)
    /\ hostedSources[op.name] # op.url
    /\ ~contains(sourceLocations, op.name)
    /\ warned = {Warning(op.name, ThisNode)}

(* ------------- properties of the cached table of the registry ---------- *)

\* C31: addSource, removeSource and pushToRegistryIfNeeded leave the cached
\* table sourceLocations as it is; the table changes only when the replica
\* processes the initialization reply or a notification of the registry
\* source, so what this node announces shows there only once it was echoed
C31_TableOnlyFromRegistry ==
    [][/\ op'.kind \in {"addSource", "removeSource", "pushIteration"}
              => sourceLocations' = sourceLocations
       /\ sourceLocations' # sourceLocations
              => op'.kind \in {"ReceiveInit", "ReceiveSignal"}]_vars

\* a Valid replica has announced a source that its table does not show
C31_Witness ==
    /\ op.kind = "addSource"
    /\ sent = <<AddPacket(op.name, op.url)>>
    /\ ~contains(sourceLocations, op.name)

\* C32: pushToRegistryIfNeeded, which runs at every change of the state,
\* changes nothing and sends nothing unless the new state is Valid and
\* hostedSources is not empty; in state Valid, when it is done, no name left in
\* hostedSources is a key of the table it looked names up in, one
\* add-notification was sent for each name left, and none for an erased name
C32_PushToRegistryIfNeeded ==
    [][state' # state =>
          /\ (state' # "Valid" \/ hostedSources = EmptyLocations)
                => hostedSources' = hostedSources /\ sent' = <<>>
          /\ state' = "Valid" =>
                /\ DOMAIN hostedSources' \subseteq DOMAIN hostedSources
                /\ \A n \in DOMAIN hostedSources' :
                      /\ hostedSources'[n] = hostedSources[n]
                      /\ ~contains(sourceLocations', n)
                      /\ Count(sent', AddPacket(n, hostedSources[n])) = 1
                /\ Len(sent') = Cardinality(DOMAIN hostedSources')
                /\ \A n \in DOMAIN hostedSources \ DOMAIN hostedSources' :
                      contains(sourceLocations', n) /\ ~Mentions(sent', n)]_vars

\* the replica became Valid with two hosted sources: one is in the table and
\* was erased, the other one was announced
C32_Witness ==
    /\ op.kind = "ReceiveInit"
    /\ state = "Valid"
    /\ \E kept \in Names, erased \in Names :
          /\ DOMAIN hostedSources = {kept}
          /\ sent = <<AddPacket(kept, hostedSources[kept])>>
          /\ warned = {Warning(erased, AnotherSource)}
          /\ contains(sourceLocations, erased)

\* C33: a remove-notification for a name is sent only if this replica sent an
\* add-notification for that name earlier and no remove-notification for it
\* since; a source that was rejected for a name collision causes none
C33_RemoveOnlyAfterAdd ==
    [][\A k \in 1..Len(sent') :
          sent'[k].type = "RemoveSource"
              => sent'[k].name \in outstanding(announced, SubSeq(sent', 1, k - 1))]_vars

(* ------------- properties of the generated Replica and Source ---------- *)

C35_PendingReplyOnlyForNonVoid ==
    [][/\ op'.kind = "ReplicaSlot" =>
            LET slot == ast.classes[1].slotsList[op'.arg]
                handle == op'.result.handle
            IN  /\ op'.result.requests =
                       <<ReplicaRequest(IF isVoid(slot) THEN "send" ELSE "sendWithReply",
                                        "InvokeMetaMethod", DeclaredSlot(op'.arg), <<>>)>>
                /\ isVoid(slot) => handle = -1 /\ replica' = replica
                /\ ~isVoid(slot) =>
                      /\ handle = Len(replica.calls) + 1
                      /\ Len(replica'.calls) = handle
                      /\ replica.state = "Valid" =>
                            /\ replica'.pendingCalls = replica.pendingCalls \cup {handle}
                            /\ replica'.calls[handle] = Slot("pending", 0)
                /\ link'.toSource =
                       IF replica.state = "Valid"
                       THEN Append(link.toSource,
                                   InvokeMetaMethod(DeclaredSlot(op'.arg), <<>>, handle))
                       ELSE link.toSource
       /\ op'.kind = "ReplicaPush" =>
            /\ ast.classes[1].properties[op'.arg.index].modifier = Modifier.ReadPush
            /\ op'.result.requests =
                   <<ReplicaRequest("send", "InvokeMetaMethod", PushSlot(op'.arg.index),
                                    <<op'.arg.value>>)>>
            /\ op'.result.handle = -1
            /\ replica' = replica
            /\ link'.toSource =
                   IF replica.state = "Valid"
                   THEN Append(link.toSource,
                               InvokeMetaMethod(PushSlot(op'.arg.index), <<op'.arg.value>>, -1))
                   ELSE link.toSource
       /\ (op'.kind = "SourceDispatch" /\ op'.arg.type = "InvokeMetaMethod") =>
            LET replies == {k \in 1..Len(op'.result) : op'.result[k].type = "InvokeReply"}
                nonVoid == /\ "slot" \in DOMAIN op'.arg.member
                           /\ ~isVoid(ast.classes[1].slotsList[op'.arg.member.slot])
            IN  /\ nonVoid => op'.result = <<InvokeReply(op'.arg.serialId)>>
                /\ ~nonVoid => replies = {}
                /\ nonVoid <=> op'.arg.serialId # -1]_vars

\* a slot that returns a value was called on a Valid Replica: the call is
\* pending and its invocation is on the way to the source
C35_Witness ==
    /\ op.kind = "ReplicaSlot"
    /\ ~isVoid(ast.classes[1].slotsList[op.arg])
    /\ op.result.handle \in replica.pendingCalls
    /\ link.toSource = <<InvokeMetaMethod(DeclaredSlot(op.arg), <<>>, op.result.handle)>>

\* C36: set<Prop>(v) of the generated SimpleSource stores v and emits
\* <prop>Changed(v) once exactly if v differs from the stored value, and
\* otherwise emits nothing and changes nothing; the same call made again right
\* away emits nothing; push<Prop>(v) does what set<Prop>(v) does
C36_SimpleSetter ==
    [][op'.kind \in {"SimpleSourceSet", "SimpleSourcePush"} =>
          LET i == op'.arg.index
              v == op'.arg.value
          IN  /\ v # source.properties[i] =>
                    /\ source' = [source EXCEPT !.properties[i] = v]
                    /\ op'.result = <<PropertyChanged(i, v)>>
              /\ v = source.properties[i] =>
                    /\ source' = source
                    /\ op'.result = <<>>
                    /\ link' = link
              /\ (op.kind \in {"SimpleSourceSet", "SimpleSourcePush"} /\ op.arg = op'.arg)
                    => op'.result = <<>>
              /\ op'.kind = "SimpleSourcePush" =>
                    /\ source' = generateSimpleSetter(source, i, v).source
                    /\ op'.result = generateSimpleSetter(source, i, v).emitted]_vars

\* the setter was called with a new value: it is stored and notified once
C36_Witness ==
    /\ op.kind = "SimpleSourceSet"
    /\ op.result = <<PropertyChanged(op.arg.index, op.arg.value)>>
    /\ source.properties[op.arg.index] = op.arg.value

\* C37: the signal table of the SourceAPI lists the change signals of the
\* properties that are not constant, in declaration order, then the signals
\* of the class in declaration order, and counts both; the Replica declares
\* the same signals at the same indices and the change signals of the constant
\* properties after all of them
C37_SignalIndicesAgree ==
    LET astClass == ast.classes[1]
        properties == astClass.properties
        api == m_signals(astClass)
        inReplica == declaredSignals("REPLICA", astClass)
        inSource == declaredSignals("SOURCE", astClass)
        changing == {i \in 1..Len(properties) : properties[i].modifier # Modifier.Constant}
        constant == (1..Len(properties)) \ changing
        rank(i) == Cardinality({j \in changing : j <= i})
    IN  /\ Len(api) = Cardinality(changing) + Len(astClass.signalsList)
        /\ Len(inSource) = Len(api)
        /\ Len(inReplica) = Len(api) + Cardinality(constant)
        /\ \A i \in changing :
              /\ api[rank(i)].name = changeSignal(properties[i])
              /\ inSource[rank(i)] = changeSignal(properties[i])
              /\ inReplica[rank(i)] = changeSignal(properties[i])
        /\ \A k \in 1..Len(astClass.signalsList) :
              /\ api[Cardinality(changing) + k].name = astClass.signalsList[k].name
              /\ inSource[Cardinality(changing) + k] = astClass.signalsList[k].name
              /\ inReplica[Cardinality(changing) + k] = astClass.signalsList[k].name
        /\ \A i \in constant :
              \E k \in (Len(api) + 1)..Len(inReplica) : inReplica[k] = changeSignal(properties[i])
        /\ op.kind = "SourceSignal" =>
              /\ op.result.source = op.result.api
              /\ op.result.replica = op.result.api

\* the first property is constant, the second is not, and the class has a
\* signal: the signal of the class has index 1 on both sides, and the change
\* signal of the constant property comes last in the Replica
C37_Witness ==
    /\ op.kind = "SourceSignal"
    /\ op.arg = 1
    /\ Len(ast.classes[1].properties) = 2
    /\ ast.classes[1].properties[1].modifier = Modifier.Constant
    /\ ast.classes[1].properties[2].modifier # Modifier.Constant
    /\ op.result.replica = <<"s">>
    /\ declaredSignals("REPLICA", ast.classes[1])[3] = changeSignal(ast.classes[1].properties[1])

(* ------------- properties of the conversion of enumerations ------------ *)

\* C38: operator>> of an enumeration reads one integer of its type; if the
\* integer is the value of no enumerator, to<Enum> reports ok = false and the
\* first enumerator is stored, and what follows in the stream is still read;
\* if it is the value of an enumerator, ok is true and that enumerator is stored
C38_DecodeUnknownEnumerator ==
    [][op'.kind = "operator>>" =>
          LET en == ast.enums[1]
              type == getEnumType(en)
              matching == {k \in 1..Len(en.params) :
                              /\ ~beyondInt(type, op'.arg)
                              /\ en.params[k].value = val(type, op'.arg)}
          IN  /\ Len(op'.arg) = sizeof(type)
              /\ out = op'.arg \o out'
              /\ matching = {} => op'.result = [obj |-> en.params[1].value, ok |-> FALSE]
              /\ \A k \in matching : op'.result = [obj |-> en.params[k].value, ok |-> TRUE]]_vars

\* an integer that is the value of no enumerator was read: the second
\* enumerator was not chosen, the first one was, and the stream has more
C38_Witness ==
    /\ op.kind = "operator>>"
    /\ Len(ast.enums[1].params) = 2
    /\ op.result = [obj |-> ast.enums[1].params[1].value, ok |-> FALSE]
    /\ val(getEnumType(ast.enums[1]), op.arg) \notin
           {ast.enums[1].params[k].value : k \in 1..2}
    /\ out # <<>>

(* ------------- properties of the persisted properties ------------------ *)

\* C39: the destructor of a Replica with persisted properties keeps their
\* values in declaration order, and initialize() gives the k-th kept value to
\* the k-th persisted property: a Replica that is destroyed and created again
\* has the last value of every persisted property and the default value of
\* every other one; with nothing kept, every property has its default value
C39_PersistedRestored ==
    [][LET properties == ast.classes[1].properties
           kept == {i \in Properties : properties[i].persisted}
           rank(i) == Cardinality({j \in kept : j <= i})
       IN  /\ op'.kind = "Destroy" =>
                 IF kept = {} THEN persistedStore' = persistedStore
                 ELSE /\ Len(persistedStore') = Cardinality(kept)
                      /\ \A i \in kept : persistedStore'[rank(i)] = replica.cachedProperties[i]
           /\ (op.kind = "Destroy" /\ op'.kind = "Recreate") =>
                 \A i \in Properties :
                     replica'.cachedProperties[i] =
                         IF i \in kept THEN op.arg[i] ELSE Defaults[i]
           /\ (op'.kind = "Recreate" /\ persistedStore = <<>>) =>
                 replica'.cachedProperties = Defaults
           /\ op'.kind = "Recreate" => op.kind = "Destroy" /\ replica'.state = "Uninitialized"
           /\ persistedStore' # persistedStore => op'.kind = "Destroy"]_vars

\* only the second property is persisted: the Replica was created again with
\* the value the second property had, and the default value of the first
C39_Witness ==
    /\ op.kind = "Recreate"
    /\ ~ast.classes[1].properties[1].persisted
    /\ ast.classes[1].properties[2].persisted
    /\ persistedStore = <<"v2">>
    /\ replica.cachedProperties = <<Default, "v2">>

(* ------------- properties of the notification of inserted rows --------- *)

====
